---- MODULE Spec2Model ----
(***************************************************************************)
(* Model of src/sistema_ventas.py (class SistemaVentas): the four record   *)
(* collections held in memory, their JSON files, and the menu handlers     *)
(* that mutate them.                                                       *)
(*                                                                         *)
(* Conventions                                                             *)
(*  - A collection is a sequence of records, in list order.                *)
(*  - Monetary amounts are integers counting hundredths (0.01) of the      *)
(*    currency unit; the input sets below are chosen so that every         *)
(*    product and division the code performs on them is exact.             *)
(*  - A line typed by the user is an "entrada": a number, a non-numeric    *)
(*    text, the empty line, one of the words float() reads as nan, inf     *)
(*    and -inf, or a digit character that int() does not read.             *)
(*  - A handler that lets an exception escape ends the process: the        *)
(*    memory is gone, the files stay as the handler left them, and salida  *)
(*    names the exception.                                                 *)
(*  - salida is the last message the program printed, named after the      *)
(*    print statement that produced it, with the handler that printed it.  *)
(***************************************************************************)
EXTENDS Integers, Sequences, FiniteSets, TLC

VARIABLES
    productos,    \* self.productos
    clientes,     \* self.clientes
    vendedores,   \* self.vendedores
    ventas,       \* self.ventas
    archivos,     \* content of the four JSON files, by file name
    pc,           \* prompt the program is waiting at, or line it has reached
    sel,          \* locals of registrar_venta between its prompts
    salida,       \* last handler and message printed
    liberados,    \* history: ids removed from each collection by a delete
    pasos,        \* number of menu options taken so far
    otra          \* a second process of the program on the same files, when one runs

vars == <<productos, clientes, vendedores, ventas, archivos, pc, sel, salida, liberados, pasos,
          otra>>

datos == <<productos, clientes, vendedores, ventas, archivos>>

----------------------------------------------------------------------------
(* Bounds of the model *)

MaxId == 2
MaxVentas == 2
MaxStock == 2
MaxPasos == 2
MaxLibro == 2

(* Program constants *)

StockMaximo == 999
CantidadMinima == 1
CantidadMaxima == 999

archivo_productos == "productos.json"
archivo_clientes == "clientes.json"
archivo_vendedores == "vendedores.json"
archivo_ventas == "ventas.json"

Archivos == {archivo_productos, archivo_clientes, archivo_vendedores, archivo_ventas}

----------------------------------------------------------------------------
(* Dates and times                                                         *)
(* A datetime is [dia, seg, micro]: whole days since Monday 2024-01-01,    *)
(* the second of the day and the microsecond of the second.  The text      *)
(* "%Y-%m-%d %H:%M:%S" of a datetime is the tuple of its six fields, and   *)
(* "%Y-%m-%d" the tuple of the first three; texts are compared field by    *)
(* field from the left, as zero-padded strings compare.                    *)

SegundosPorDia == 24 * 60 * 60

Bisiesto(y) == (y % 4 = 0 /\ y % 100 # 0) \/ y % 400 = 0

DiasDelAnio(y) == IF Bisiesto(y) THEN 366 ELSE 365

DiasDelMes(y, m) ==
    IF m = 2 THEN (IF Bisiesto(y) THEN 29 ELSE 28)
    ELSE IF m \in {4, 6, 9, 11} THEN 30 ELSE 31

\* days from 2024-01-01 to the first of January of year y
RECURSIVE DiasHastaAnio(_)
DiasHastaAnio(y) ==
    IF y = 2024 THEN 0
    ELSE IF y > 2024 THEN DiasHastaAnio(y - 1) + DiasDelAnio(y - 1)
    ELSE DiasHastaAnio(y + 1) - DiasDelAnio(y)

\* days from the first of January of year y to the first of month m
RECURSIVE DiasHastaMes(_, _)
DiasHastaMes(y, m) == IF m = 1 THEN 0 ELSE DiasHastaMes(y, m - 1) + DiasDelMes(y, m - 1)

\* the year in which day number n falls, searched from year y
RECURSIVE AnioDeDia(_, _)
AnioDeDia(n, y) ==
    IF n < DiasHastaAnio(y) THEN AnioDeDia(n, y - 1)
    ELSE IF n >= DiasHastaAnio(y + 1) THEN AnioDeDia(n, y + 1)
    ELSE y

\* the month of year y in which its day r (from 0) falls, searched from month m
RECURSIVE MesDeDia(_, _, _)
MesDeDia(r, y, m) == IF r >= DiasHastaMes(y, m) + DiasDelMes(y, m) THEN MesDeDia(r, y, m + 1) ELSE m

\* datetime.weekday(): Monday is 0, Sunday is 6
weekday(t) == ((t.dia % 7) + 7) % 7

\* datetime.strftime("%Y-%m-%d %H:%M:%S"): the microsecond is not written
strftime(t) ==
    LET y == AnioDeDia(t.dia, 2024)
        r == t.dia - DiasHastaAnio(y)
        m == MesDeDia(r, y, 1)
    IN <<y, m, r - DiasHastaMes(y, m) + 1,
         t.seg \div 3600, (t.seg % 3600) \div 60, t.seg % 60>>

\* datetime.strftime("%Y-%m-%d")
strftime_dia(t) == SubSeq(strftime(t), 1, 3)

\* datetime.strptime(f, "%Y-%m-%d %H:%M:%S") succeeds: six fields, each in range
FechaValida(f) ==
    /\ Len(f) = 6
    /\ f[1] \in 1..9999
    /\ f[2] \in 1..12
    /\ f[3] \in 1..DiasDelMes(f[1], f[2])
    /\ f[4] \in 0..23
    /\ f[5] \in 0..59
    /\ f[6] \in 0..59

\* datetime.strptime(f, "%Y-%m-%d %H:%M:%S") of a text that parses
strptime(f) ==
    [dia |-> DiasHastaAnio(f[1]) + DiasHastaMes(f[1], f[2]) + f[3] - 1,
     seg |-> f[4] * 3600 + f[5] * 60 + f[6],
     micro |-> 0]

\* datetime.strptime(f, "%Y-%m-%d") of a text that strftime_dia wrote
strptime_dia(f) == strptime(f \o <<0, 0, 0>>)

\* a < b and a <= b on datetimes
Anterior(a, b) ==
    \/ a.dia < b.dia
    \/ a.dia = b.dia /\ a.seg < b.seg
    \/ a.dia = b.dia /\ a.seg = b.seg /\ a.micro < b.micro

NoPosterior(a, b) == a = b \/ Anterior(a, b)

\* a < b on the texts strftime_dia writes
TextoMenor(a, b) ==
    \E k \in 1..3 : a[k] < b[k] /\ \A j \in 1..(k - 1) : a[j] = b[j]

\* t + timedelta(days=d, seconds=n), for t.seg + n >= 0
MasTiempo(t, d, n) ==
    [dia |-> t.dia + d + ((t.seg + n) \div SegundosPorDia),
     seg |-> (t.seg + n) % SegundosPorDia,
     micro |-> t.micro]

\* InicioSemana going back to the Monday: weekday days instead of weekday + 1
InicioSemanaLunes(t) ==
    [MasTiempo(t, 0 - weekday(t), 0) EXCEPT !.seg = 0, !.micro = 0]

\* now - timedelta(days=(weekday + 1) % 7), then replace(hour=0, minute=0,
\* second=0, microsecond=0): the Sunday 00:00:00 on or before t
InicioSemana(t) ==
    LET dias_a_restar == (weekday(t) + 1) % 7
    IN [MasTiempo(t, 0 - dias_a_restar, 0) EXCEPT !.seg = 0, !.micro = 0]

\* inicio + timedelta(days=6, hours=23, minutes=59, seconds=59)
FinSemana(inicio) == MasTiempo(inicio, 6, 23 * 3600 + 59 * 60 + 59)

\* the datetime of a date and time of day
Momento(y, m, d, seg, micro) ==
    [dia |-> DiasHastaAnio(y) + DiasHastaMes(y, m) + d - 1, seg |-> seg, micro |-> micro]

\* values datetime.now() takes: the days around two week boundaries of June
\* 2024 and the first day of the year, each at its first and last second
Ahoras ==
    {Momento(f[1], f[2], f[3], seg, micro) :
        f \in {<<2024, 1, 1>>, <<2024, 6, 8>>, <<2024, 6, 9>>, <<2024, 6, 10>>, <<2024, 6, 15>>},
        seg \in {0, SegundosPorDia - 1},
        micro \in {0, 500000}}

----------------------------------------------------------------------------
(* User input *)

Num(n) == [t |-> "num", n |-> n]
Texto == [t |-> "texto", n |-> 0]
Vacio == [t |-> "vacio", n |-> 0]

\* the lines "nan", "inf" and "-inf": float() takes them, int() does not
EntradaNaN == [t |-> "nan", n |-> 0]
EntradaInf == [t |-> "inf", n |-> 0]
EntradaMenosInf == [t |-> "-inf", n |-> 0]

\* a line such as "²": str.isdigit() is True of it, int() and float() raise ValueError
Superindice == [t |-> "superindice", n |-> 0]

\* int(x) succeeds on a number; "", "abc", "nan", "inf" and "²" raise ValueError
EsNumero(e) == e.t = "num"

\* float(x) succeeds on a number and on "nan", "inf" and "-inf"
EsFlotante(e) == e.t \in {"num", "nan", "inf", "-inf"}

\* str.isdigit(): digit characters only, so no sign; "²" is one
EsDigitos(e) == (e.t = "num" /\ e.n >= 0) \/ e.t = "superindice"

\* The floats nan and inf as values of a record.  The amounts the program
\* stores are never negative, and these two stand below them.
NaN == -1
Inf == -2

EsFinito(x) == x \notin {NaN, Inf}

\* float(x) of a line float() takes other than "-inf"
Flotante(e) == IF e.t = "nan" THEN NaN ELSE IF e.t = "inf" THEN Inf ELSE e.n

\* float(x) <= 0: false of nan and of inf
FlotanteNoPositivo(e) == e.t = "-inf" \/ (e.t = "num" /\ e.n <= 0)

\* float(x) < 0: false of nan and of inf
FlotanteNegativo(e) == e.t = "-inf" \/ (e.t = "num" /\ e.n < 0)

\* a + b of two stored floats
Suma(a, b) ==
    IF a = NaN \/ b = NaN THEN NaN
    ELSE IF a = Inf \/ b = Inf THEN Inf
    ELSE a + b

\* int(valor) in formato_moneda_entero: the exception it raises, "ninguno" when it returns
ErrorDeFormato(valor) ==
    IF valor = NaN THEN "ValueError"
    ELSE IF valor = Inf THEN "OverflowError"
    ELSE "ninguno"

\* listar_productos_tabla formats the cost, the profit and the price of each
\* product in turn: the first exception that raises, "ninguno" when none does
ErrorDeListado(ps) ==
    LET valores == [k \in 1..(3 * Len(ps)) |->
                       LET p == ps[((k - 1) \div 3) + 1]
                       IN IF (k - 1) % 3 = 0 THEN p.precio_compra
                          ELSE IF (k - 1) % 3 = 1 THEN p.beneficio
                          ELSE p.precio_venta]
        malos == {k \in 1..(3 * Len(ps)) : ~EsFinito(valores[k])}
    IN IF malos = {} THEN "ninguno"
       ELSE ErrorDeFormato(valores[CHOOSE k \in malos : \A j \in malos : k <= j])

\* input(...).lower().strip() of the confirmation prompts
Minusculas(r) == IF r = "S" THEN "s" ELSE r

EntradasId == {Texto} \cup {Num(i) : i \in 1..MaxId}
EntradasIdCliente == {Num(0)} \cup EntradasId
EntradasConfirmar == {"s", "S", "n"}
EntradasCantidad ==
    {Texto, Superindice, Num(0), Num(CantidadMaxima + 1)} \cup {Num(q) : q \in 1..MaxStock}
EntradasPorcentaje ==
    {Texto, Num(0), Num(100), Num(-50), EntradaNaN, EntradaInf, EntradaMenosInf}
\* texts datetime.now().strftime(...) gives a sale: a Saturday's last second
\* and noon of the Monday after it
Instantes ==
    {strftime(Momento(2024, 6, 8, SegundosPorDia - 1, 500000)),
     strftime(Momento(2024, 6, 10, 12 * 3600, 0))}

\* answers to the prompts of agregar_producto: name, cost, profit, stock
EntradasAltaProducto ==
    {<<"a", Num(1), Num(2), Num(MaxStock)>>,
     <<"a", Num(1), Num(2), Num(StockMaximo + 1)>>,
     <<"", Num(1), Num(2), Num(MaxStock)>>,
     <<"a", Texto, Num(2), Num(MaxStock)>>,
     <<"a", Num(0), Num(2), Num(MaxStock)>>,
     <<"a", EntradaNaN, Num(2), Num(MaxStock)>>,
     <<"a", Num(1), EntradaInf, Num(MaxStock)>>,
     <<"a", EntradaMenosInf, Num(2), Num(MaxStock)>>}

\* answers to the prompts of editar_producto: name, cost, profit, stock
EntradasEdicionProducto ==
    {<<"b", Vacio, Vacio, Vacio>>,
     <<"", Num(2), Vacio, Vacio>>,
     <<"", Num(2), Texto, Vacio>>,
     <<"b", Texto, Vacio, Vacio>>,
     <<"", Vacio, Num(0), Num(1)>>,
     <<"", Num(0), Num(-2), Num(StockMaximo + 1)>>,
     <<"", EntradaNaN, Vacio, Superindice>>,
     <<"", EntradaNaN, Texto, Vacio>>,
     <<"", Vacio, EntradaInf, Vacio>>}

\* answers to the prompts of agregar_cliente and editar_cliente: name, dni, phone
EntradasAltaCliente == {<<"a", "d", "">>, <<"", "d", "">>}
EntradasEdicionCliente == {<<"b", "", "">>, <<"", "e", "t">>}

\* answers to the prompts of agregar_vendedor and editar_vendedor: name, commission
EntradasAltaVendedor ==
    {<<"a", Num(50)>>, <<"", Num(50)>>, <<"a", Texto>>, <<"a", Num(-50)>>, <<"a", EntradaNaN>>,
     <<"a", EntradaInf>>}
EntradasEdicionVendedor ==
    {<<"b", Vacio>>, <<"", Num(0)>>, <<"b", Texto>>, <<"", Num(-50)>>, <<"", EntradaInf>>,
     <<"", EntradaMenosInf>>}

\* lines typed at the prompt of buscar_productos
EntradasBusqueda == {"", "1", "A", "b"}

\* costs the model represents: the mass update is taken only onto these
PreciosRepresentables == {1, 2}

----------------------------------------------------------------------------
(* Helpers over collections *)

Maximo(S) == CHOOSE x \in S : \A y \in S : y <= x

Ids(col) == {col[i].id : i \in 1..Len(col)}

\* next((r for r in col if r['id'] == id), None): position of the first match, 0 for None
BuscarPorId(col, id) ==
    LET idx == {i \in 1..Len(col) : col[i].id = id}
    IN IF idx = {} THEN 0 ELSE CHOOSE i \in idx : \A j \in idx : i <= j

\* SiguienteId counting the records instead of taking the highest id
SiguienteIdPorCantidad(col) == Len(col) + 1

\* SiguienteId giving the highest id again instead of the one after it
SiguienteIdSinAvance(col) == IF Len(col) = 0 THEN 1 ELSE Maximo(Ids(col))

\* max([r['id'] for r in col]) + 1 if col else 1
SiguienteId(col) == IF Len(col) = 0 THEN 1 ELSE Maximo(Ids(col)) + 1

\* list.remove(x): removes the first element equal to x
Remover(col, x) ==
    LET idx == {i \in 1..Len(col) : col[i] = x}
        k == CHOOSE i \in idx : \A j \in idx : i <= j
    IN [j \in 1..(Len(col) - 1) |-> IF j < k THEN col[j] ELSE col[j + 1]]

\* any(v[campo] == id for v in self.ventas)
TieneVentas(campo, id) == \E i \in 1..Len(ventas) : ventas[i][campo] = id

\* The text of a JSON file is the sequence of its objects, an object the
\* sequence of its members <<key, value>>, and a value the token written for
\* it: a number or a quoted string.  The members are taken in the order of
\* the dict literals of the code.
\* A file is missing ("ausente"), holds the text of a JSON array ("json"),
\* holds a text json.load rejects ("corrupto": an empty or a cut-off file), or
\* holds bytes that are no UTF-8 text ("ilegible").

\* the keys of the records, in the order the dict literals of the code list them
OrdenClaves ==
    <<"id", "nombre", "email", "dni", "telefono", "comision_beneficio", "fecha",
      "producto_id", "producto_nombre", "precio_compra", "beneficio",
      "beneficio_unitario", "precio_venta", "stock", "cliente_id", "cliente_nombre",
      "vendedor_id", "vendedor_nombre", "cantidad", "precio_unitario", "subtotal",
      "beneficio_total", "comision", "porcentaje_comision", "total">>

\* the keys whose values are str
ClavesDeTexto ==
    {"nombre", "email", "dni", "telefono", "fecha", "producto_nombre",
     "cliente_nombre", "vendedor_nombre"}

\* A dict keeps its keys in the order they were inserted, and json.dump writes
\* them in that order.  A record whose keys were inserted in the order of
\* OrdenClaves is the plain record; any other dict carries its order of
\* insertion under ClaveDeOrden, which is no key of the dict.
ClaveDeOrden == "__orden__"

Campos(r) == DOMAIN r \ {ClaveDeOrden}

OrdenCanonico(S) == SelectSeq(OrdenClaves, LAMBDA k : k \in S)

Claves(r) == IF ClaveDeOrden \in DOMAIN r THEN r[ClaveDeOrden] ELSE OrdenCanonico(DOMAIN r)

\* the dict with the keys of orden, inserted in that order, and the values of f
Dict(orden, f) ==
    LET S == {orden[i] : i \in 1..Len(orden)}
    IN IF orden = OrdenCanonico(S)
       THEN [k \in S |-> f[k]]
       ELSE [k \in S \cup {ClaveDeOrden} |-> IF k = ClaveDeOrden THEN orden ELSE f[k]]

\* json.dump of one dict: its members in the order the keys were inserted; a
\* str goes between quotes, a number as its digits, and (allow_nan is left at
\* True) nan and inf as the words NaN and Infinity, which are no JSON
json_objeto(r) ==
    LET claves == Claves(r)
        json_valor(clave, x) ==
            IF clave \in ClavesDeTexto THEN [json |-> "string", v |-> x]
            ELSE IF x = NaN THEN [json |-> "NaN", v |-> 0]
            ELSE IF x = Inf THEN [json |-> "Infinity", v |-> 0]
            ELSE [json |-> "number", v |-> x]
    IN [i \in 1..Len(claves) |-> <<claves[i], json_valor(claves[i], r[claves[i]])>>]

\* json.dump of a list of dicts
json_dump(col) == [i \in 1..Len(col) |-> json_objeto(col[i])]

\* json.load of one object: a dict of its members in the order of the file,
\* the last one of a name winning at the place of the first; the words NaN
\* and Infinity give float('nan') and float('inf')
dict_de_json(o) ==
    LET primeras == SelectSeq([i \in 1..Len(o) |-> i],
                              LAMBDA i : \A j \in 1..(i - 1) : o[j][1] # o[i][1])
        orden == [n \in 1..Len(primeras) |-> o[primeras[n]][1]]
        valor_de_json(t) ==
            IF t.json = "NaN" THEN NaN ELSE IF t.json = "Infinity" THEN Inf ELSE t.v
        valores == [k \in {o[i][1] : i \in 1..Len(o)} |->
                       LET ult == CHOOSE i \in 1..Len(o) :
                                      o[i][1] = k /\ \A j \in 1..Len(o) : o[j][1] = k => j <= i
                       IN valor_de_json(o[ult][2])]
    IN Dict(orden, valores)

\* json.load of an array of objects
json_load(doc) == [i \in 1..Len(doc) |-> dict_de_json(doc[i])]

\* The number of characters json.dump(datos, f, indent=4, ensure_ascii=False)
\* writes, which is the number of bytes of the file when every str is ASCII
\* without quotes or backslashes: "[]" for an empty list; otherwise "[", every
\* dict on lines of its own behind four spaces, every member on a line behind
\* eight with ": " after its key, "," between members and between dicts, and
\* "]" on the last line.  An int is written as its digits and a float by
\* repr: an amount of h hundredths as h/100 with one or two decimals, a
\* percentage of p as p and ".0".  A str stands between quotes, and the text
\* of a date has 19 characters.
LongitudDeTexto(doc) ==
    LET enteras == {"id", "stock", "cantidad", "producto_id", "cliente_id", "vendedor_id"}
        porcentajes == {"comision_beneficio", "porcentaje_comision"}
        RECURSIVE Digitos(_)
        Digitos(n) == IF n < 10 THEN 1 ELSE 1 + Digitos(n \div 10)
        RECURSIVE Total(_, _)
        Total(s, n) == IF n = 0 THEN 0 ELSE s[n] + Total(s, n - 1)
        Valor(k, t) ==
            IF k = "fecha" THEN 21
            ELSE IF t.json = "string" THEN Len(t.v) + 2
            ELSE IF t.json = "NaN" THEN 3
            ELSE IF t.json = "Infinity" THEN 8
            ELSE IF k \in enteras THEN Digitos(t.v)
            ELSE IF k \in porcentajes THEN Digitos(t.v) + 2
            ELSE Digitos(t.v \div 100) + 1 + (IF t.v % 10 = 0 THEN 1 ELSE 2)
        Objeto(o) ==
            IF Len(o) = 0 THEN 7
            ELSE 6 + Total([j \in 1..Len(o) |-> 13 + Len(o[j][1]) + Valor(o[j][1], o[j][2])],
                           Len(o))
                   + (Len(o) - 1) + 6
    IN IF Len(doc) = 0 THEN 2
       ELSE 1 + Total([i \in 1..Len(doc) |-> Objeto(doc[i])], Len(doc)) + (Len(doc) - 1) + 2

ArchivoAusente == [estado |-> "ausente", doc |-> <<>>]
ArchivoCorrupto == [estado |-> "corrupto", doc |-> <<>>]
ArchivoJson(doc) == [estado |-> "json", doc |-> doc]

\* what cargar_json returns: the list json.load gives, [] for a missing file
\* and [] when json.load raises JSONDecodeError
cargar_json(fs, archivo) ==
    IF fs[archivo].estado = "json" THEN json_load(fs[archivo].doc) ELSE <<>>

\* what cargar_json leaves on disk: a missing file is created holding []
cargar_json_crea(fs, archivo) ==
    IF fs[archivo].estado = "ausente"
    THEN [fs EXCEPT ![archivo] = ArchivoJson(json_dump(<<>>))]
    ELSE fs

\* a file whose bytes are not UTF-8 text: reading it raises UnicodeDecodeError,
\* which the except clause of cargar_json does not name
ArchivoIlegible == [estado |-> "ilegible", doc |-> <<>>]

\* with open(archivo, 'w') and json.dump(datos, f) with no other process at
\* the file in between: the file holds the text of datos
guardar_json(fs, col, archivo) == [fs EXCEPT ![archivo] = ArchivoJson(json_dump(col))]

\* open(archivo, 'w') of guardar_json (line 103): the file is cut to no bytes
\* at once, before anything is written; json.load of it raises JSONDecodeError
abrir(fs, archivo) ==
    [fs EXCEPT ![archivo] = [estado |-> "corrupto", doc |-> <<>>, largo |-> 0]]

\* json.dump of col into f and the close of f (line 104 and the end of the with
\* block): a text shorter than the buffer of f (8192 bytes) goes to the file
\* in one write when f is closed, at the position of f, which is 0.  The
\* bytes the file holds beyond the end of the text stay where they are: there
\* are some when another process has written a longer text since this one
\* opened the file, and then the file is the text of col followed by the
\* tail of the other text, which ends in "]" and is no JSON.
escribir(fs, col, archivo) ==
    LET a == fs[archivo]
        largo == IF a.estado = "json" THEN LongitudDeTexto(a.doc)
                 ELSE IF "largo" \in DOMAIN a THEN a.largo
                 ELSE 0
    IN IF largo <= LongitudDeTexto(json_dump(col))
       THEN [fs EXCEPT ![archivo] = ArchivoJson(json_dump(col))]
       ELSE [fs EXCEPT ![archivo] = [estado |-> "corrupto", doc |-> <<>>, largo |-> largo]]

Responder(op, msg) == salida' = [op |-> op, msg |-> msg]

\* every menu option taken counts against the bound on the length of a run
Paso == pasos < MaxPasos /\ pasos' = pasos + 1

SinSeleccion == [producto |-> 0, cliente_id |-> 0, cliente_nombre |-> "", vendedor |-> 0, cantidad |-> 0]

\* An exception no handler catches leaves ejecutar and the program: the process
\* ends with what it held in memory, and the files stay as they were written.
ProcesoTermina(op, error) ==
    /\ productos' = <<>>
    /\ clientes' = <<>>
    /\ vendedores' = <<>>
    /\ ventas' = <<>>
    /\ pc' = "apagado"
    /\ sel' = SinSeleccion
    /\ salida' = [op |-> op, msg |-> error]

\* no second process: nothing loaded and nothing asked
SinOtra ==
    [productos |-> <<>>, clientes |-> <<>>, vendedores |-> <<>>, ventas |-> <<>>,
     pc |-> "apagado", sel |-> SinSeleccion, salida |-> [op |-> "inicio", msg |-> ""]]

----------------------------------------------------------------------------
----------------------------------------------------------------------------
(* Products *)

\* the stock loop of agregar_producto without the upper limit
StockValidoSinMaximo(e) == EsNumero(e) /\ 0 <= e.n

\* the while loop of agregar_producto leaves only with an integer in [0, 999]
StockValido(e) == EsNumero(e) /\ 0 <= e.n /\ e.n <= StockMaximo

NuevoProducto(id, nombre, compra, beneficio, stock) ==
    [id |-> id, nombre |-> nombre, precio_compra |-> compra, beneficio |-> beneficio,
     precio_venta |-> Suma(compra, beneficio), stock |-> stock]

AgregarProducto(nombre, ec, eb, es) ==
    /\ pc = "menu"
    /\ UNCHANGED otra
    /\ Paso
    /\ Len(productos) < MaxId
    /\ SiguienteId(productos) <= MaxId
    /\ UNCHANGED liberados
    /\ IF nombre = ""
       THEN Responder("agregar_producto", "nombre_vacio") /\ UNCHANGED <<datos, pc, sel>>
       ELSE IF ~EsFlotante(ec) \/ ~EsFlotante(eb)
       THEN Responder("agregar_producto", "valores_no_numericos") /\ UNCHANGED <<datos, pc, sel>>
       ELSE IF FlotanteNoPositivo(ec) \/ FlotanteNegativo(eb)
       THEN Responder("agregar_producto", "precio_o_beneficio_invalido")
            /\ UNCHANGED <<datos, pc, sel>>
       ELSE /\ StockValido(es)
            /\ LET nuevo == NuevoProducto(SiguienteId(productos), nombre,
                                          Flotante(ec), Flotante(eb), es.n)
                   error == ErrorDeFormato(nuevo.precio_venta)
               IN /\ archivos' = guardar_json(archivos, Append(productos, nuevo),
                                              archivo_productos)
                  /\ IF error = "OverflowError"
                     THEN ProcesoTermina("agregar_producto", error)
                     ELSE /\ productos' = Append(productos, nuevo)
                          /\ Responder("agregar_producto",
                                       IF error = "ValueError" THEN "valores_no_numericos"
                                       ELSE "producto_agregado")
                          /\ UNCHANGED <<clientes, vendedores, ventas, pc, sel>>

\* Body of editar_producto after the product was found: the record as the
\* handler leaves it in memory, whether guardar_json was reached, and the
\* last message.  A float() that raises leaves the inner try at that point;
\* a price of nan raises ValueError when the new price is formatted, after the
\* save, and a price of inf raises OverflowError there, which nothing catches.
EdicionProducto(p, nombre, ec, eb, es) ==
    LET p1 == IF nombre # "" THEN [p EXCEPT !.nombre = nombre] ELSE p
        p2 == IF EsFlotante(ec) /\ ~FlotanteNoPositivo(ec)
              THEN [p1 EXCEPT !.precio_compra = Flotante(ec)] ELSE p1
        p3 == IF EsFlotante(eb) /\ ~FlotanteNegativo(eb)
              THEN [p2 EXCEPT !.beneficio = Flotante(eb)] ELSE p2
        p4 == IF EsNumero(es) /\ 0 <= es.n /\ es.n <= StockMaximo
              THEN [p3 EXCEPT !.stock = es.n] ELSE p3
        p5 == [p4 EXCEPT !.precio_venta = Suma(p4.precio_compra, p4.beneficio)]
        error == ErrorDeFormato(p5.precio_venta)
    IN IF ec.t # "vacio" /\ ~EsFlotante(ec)
       THEN [producto |-> p1, guardado |-> FALSE, msg |-> "valores_no_numericos"]
       ELSE IF eb.t # "vacio" /\ ~EsFlotante(eb)
       THEN [producto |-> p2, guardado |-> FALSE, msg |-> "valores_no_numericos"]
       ELSE [producto |-> p5, guardado |-> TRUE,
             msg |-> IF error = "ValueError" THEN "valores_no_numericos"
                     ELSE IF error = "OverflowError" THEN error
                     ELSE "producto_actualizado"]

\* editar_producto carrying the edited name into the sales of the product
EditarProductoConVentas(eid, nombre, ec, eb, es) ==
    /\ pc = "menu"
    /\ UNCHANGED otra
    /\ Paso
    /\ UNCHANGED liberados
    /\ IF Len(productos) = 0
       THEN Responder("editar_producto", "sin_productos") /\ UNCHANGED <<datos, pc, sel>>
       ELSE IF ErrorDeListado(productos) # "ninguno"
       THEN ProcesoTermina("editar_producto", ErrorDeListado(productos)) /\ UNCHANGED archivos
       ELSE IF ~EsNumero(eid)
       THEN Responder("editar_producto", "id_no_numerico") /\ UNCHANGED <<datos, pc, sel>>
       ELSE IF BuscarPorId(productos, eid.n) = 0
       THEN Responder("editar_producto", "producto_no_encontrado")
            /\ UNCHANGED <<datos, pc, sel>>
       ELSE LET i == BuscarPorId(productos, eid.n)
                r == EdicionProducto(productos[i], nombre, ec, eb, es)
                editados == [productos EXCEPT ![i] = r.producto]
            IN /\ archivos' = IF r.guardado
                              THEN guardar_json(archivos, editados, archivo_productos)
                              ELSE archivos
               /\ IF r.msg = "OverflowError"
                  THEN ProcesoTermina("editar_producto", r.msg)
                  ELSE /\ productos' = editados
                       /\ ventas' = [k \in 1..Len(ventas) |->
                                        IF ventas[k].producto_id = eid.n
                                        THEN [ventas[k] EXCEPT
                                                 !.producto_nombre = r.producto.nombre]
                                        ELSE ventas[k]]
                       /\ Responder("editar_producto", r.msg)
                       /\ UNCHANGED <<clientes, vendedores, pc, sel>>

EditarProducto(eid, nombre, ec, eb, es) ==
    /\ pc = "menu"
    /\ UNCHANGED otra
    /\ Paso
    /\ UNCHANGED liberados
    /\ IF Len(productos) = 0
       THEN Responder("editar_producto", "sin_productos") /\ UNCHANGED <<datos, pc, sel>>
       ELSE IF ErrorDeListado(productos) # "ninguno"
       THEN ProcesoTermina("editar_producto", ErrorDeListado(productos)) /\ UNCHANGED archivos
       ELSE IF ~EsNumero(eid)
       THEN Responder("editar_producto", "id_no_numerico") /\ UNCHANGED <<datos, pc, sel>>
       ELSE IF BuscarPorId(productos, eid.n) = 0
       THEN Responder("editar_producto", "producto_no_encontrado")
            /\ UNCHANGED <<datos, pc, sel>>
       ELSE LET i == BuscarPorId(productos, eid.n)
                r == EdicionProducto(productos[i], nombre, ec, eb, es)
                editados == [productos EXCEPT ![i] = r.producto]
            IN /\ archivos' = IF r.guardado
                              THEN guardar_json(archivos, editados, archivo_productos)
                              ELSE archivos
               /\ IF r.msg = "OverflowError"
                  THEN ProcesoTermina("editar_producto", r.msg)
                  ELSE /\ productos' = editados
                       /\ UNCHANGED ventas
                       /\ Responder("editar_producto", r.msg)
                       /\ UNCHANGED <<clientes, vendedores, pc, sel>>

\* producto['precio_compra'] * (1 + porcentaje / 100), floored at 0.01 on a
\* decrease, for a cost that is > 0 and the percentage as typed
NuevoPrecioCompra(compra, e) ==
    IF e.t = "nan" THEN NaN
    ELSE IF e.t = "-inf" THEN 1
    ELSE IF e.t = "inf" THEN Inf
    ELSE IF compra = Inf
    THEN IF e.n > -100 THEN Inf ELSE IF e.n = -100 THEN NaN ELSE 1
    ELSE IF compra * (100 + e.n) < 100 /\ e.n < 0 THEN 1
    ELSE (compra * (100 + e.n)) \div 100

CostoActualizado(p, e) ==
    IF p.precio_compra = Inf \/ (EsFinito(p.precio_compra) /\ p.precio_compra > 0)
    THEN [p EXCEPT !.precio_compra = NuevoPrecioCompra(p.precio_compra, e),
                   !.precio_venta = Suma(NuevoPrecioCompra(p.precio_compra, e), p.beneficio)]
    ELSE p

\* the new costs are amounts the model represents: whole hundredths, in PreciosRepresentables
CostoRepresentable(p, e) ==
    \/ e.t # "num"
    \/ ~EsFinito(p.precio_compra)
    \/ p.precio_compra <= 0
    \/ /\ \/ (p.precio_compra * (100 + e.n)) % 100 = 0
          \/ (p.precio_compra * (100 + e.n) < 100 /\ e.n < 0)
       /\ NuevoPrecioCompra(p.precio_compra, e) \in PreciosRepresentables

ActualizarCostoMasivo(epct, conf) ==
    /\ pc = "menu"
    /\ UNCHANGED otra
    /\ Paso
    /\ IF Len(productos) = 0
       THEN Responder("actualizar_costo_masivo", "sin_productos") /\ UNCHANGED datos
       ELSE IF ~EsFlotante(epct)
       THEN Responder("actualizar_costo_masivo", "porcentaje_no_numerico") /\ UNCHANGED datos
       ELSE IF epct.t = "num" /\ epct.n = 0
       THEN Responder("actualizar_costo_masivo", "porcentaje_cero") /\ UNCHANGED datos
       ELSE IF Minusculas(conf) # "s"
       THEN Responder("actualizar_costo_masivo", "actualizacion_cancelada") /\ UNCHANGED datos
       ELSE /\ \A i \in 1..Len(productos) : CostoRepresentable(productos[i], epct)
            /\ productos' = [i \in 1..Len(productos) |-> CostoActualizado(productos[i], epct)]
            /\ archivos' = guardar_json(archivos, productos', archivo_productos)
            /\ Responder("actualizar_costo_masivo", "actualizacion_completada")
            /\ UNCHANGED <<clientes, vendedores, ventas>>
    /\ UNCHANGED <<pc, sel, liberados>>

EliminarProducto(eid, conf) ==
    /\ pc = "menu"
    /\ UNCHANGED otra
    /\ Paso
    /\ IF Len(productos) = 0
       THEN Responder("eliminar_producto", "sin_productos")
            /\ UNCHANGED <<datos, liberados, pc, sel>>
       ELSE IF ErrorDeListado(productos) # "ninguno"
       THEN ProcesoTermina("eliminar_producto", ErrorDeListado(productos))
            /\ UNCHANGED <<archivos, liberados>>
       ELSE IF ~EsNumero(eid)
       THEN Responder("eliminar_producto", "id_no_numerico")
            /\ UNCHANGED <<datos, liberados, pc, sel>>
       ELSE IF TieneVentas("producto_id", eid.n)
       THEN Responder("eliminar_producto", "tiene_ventas_asociadas")
            /\ UNCHANGED <<datos, liberados, pc, sel>>
       ELSE IF BuscarPorId(productos, eid.n) = 0
       THEN Responder("eliminar_producto", "producto_no_encontrado")
            /\ UNCHANGED <<datos, liberados, pc, sel>>
       ELSE IF Minusculas(conf) # "s"
       THEN Responder("eliminar_producto", "eliminacion_cancelada")
            /\ UNCHANGED <<datos, liberados, pc, sel>>
       ELSE /\ productos' = Remover(productos, productos[BuscarPorId(productos, eid.n)])
            /\ archivos' = guardar_json(archivos, productos', archivo_productos)
            /\ liberados' = [liberados EXCEPT ![archivo_productos] = @ \cup {eid.n}]
            /\ Responder("eliminar_producto", "producto_eliminado")
            /\ UNCHANGED <<clientes, vendedores, ventas, pc, sel>>

\* listar_productos of the whole catalogue
ListarProductos ==
    /\ pc = "menu"
    /\ UNCHANGED otra
    /\ Paso
    /\ UNCHANGED liberados
    /\ IF Len(productos) = 0
       THEN Responder("listar_productos", "sin_productos") /\ UNCHANGED <<datos, pc, sel>>
       ELSE IF ErrorDeListado(productos) # "ninguno"
       THEN ProcesoTermina("listar_productos", ErrorDeListado(productos)) /\ UNCHANGED archivos
       ELSE Responder("listar_productos", "productos_listados") /\ UNCHANGED <<datos, pc, sel>>

\* str.lower() of a text of ASCII characters
lower(s) ==
    LET letra(c) ==
            IF \E k \in 1..26 : SubSeq("ABCDEFGHIJKLMNOPQRSTUVWXYZ", k, k) = c
            THEN LET k == CHOOSE k \in 1..26 : SubSeq("ABCDEFGHIJKLMNOPQRSTUVWXYZ", k, k) = c
                 IN SubSeq("abcdefghijklmnopqrstuvwxyz", k, k)
            ELSE c
        hasta[n \in 0..Len(s)] ==
            IF n = 0 THEN "" ELSE hasta[n - 1] \o letra(SubSeq(s, n, n))
    IN hasta[Len(s)]

\* str.isdigit() of a line of ASCII characters
isdigit(s) ==
    /\ Len(s) > 0
    /\ \A i \in 1..Len(s) :
          SubSeq(s, i, i) \in {"0", "1", "2", "3", "4", "5", "6", "7", "8", "9"}

\* str(n) of an id
str(n) ==
    LET cifra(d) == SubSeq("0123456789", d + 1, d + 1)
        texto[k \in 0..n] == IF k < 10 THEN cifra(k) ELSE texto[k \div 10] \o cifra(k % 10)
    IN texto[n]

\* the loop of buscar_productos: the product whose id is the term ends it,
\* a product whose name holds the term is kept
ResultadosDeBusqueda(ps, termino) ==
    LET Contiene(nombre, t) ==
            \E i \in 1..(Len(nombre) - Len(t) + 1) : SubSeq(nombre, i, i + Len(t) - 1) = t
        desde[i \in 1..(Len(ps) + 1)] ==
            IF i > Len(ps) THEN <<>>
            ELSE IF isdigit(termino) /\ str(ps[i].id) = termino THEN <<ps[i]>>
            ELSE IF Contiene(lower(ps[i].nombre), lower(termino))
            THEN <<ps[i]>> \o desde[i + 1]
            ELSE desde[i + 1]
    IN desde[1]

BuscarProductos(termino) ==
    /\ pc = "menu"
    /\ UNCHANGED otra
    /\ Paso
    /\ UNCHANGED liberados
    /\ LET resultados == ResultadosDeBusqueda(productos, termino)
       IN IF termino = ""
          THEN Responder("buscar_productos", "busqueda_cancelada")
               /\ UNCHANGED <<datos, pc, sel>>
          ELSE IF Len(resultados) = 0
          THEN Responder("buscar_productos", "sin_resultados") /\ UNCHANGED <<datos, pc, sel>>
          ELSE IF ErrorDeListado(resultados) # "ninguno"
          THEN ProcesoTermina("buscar_productos", ErrorDeListado(resultados))
               /\ UNCHANGED archivos
          ELSE Responder("buscar_productos", "productos_listados")
               /\ UNCHANGED <<datos, pc, sel>>

----------------------------------------------------------------------------
(* Clients *)

AgregarCliente(nombre, dni, telefono) ==
    /\ pc = "menu"
    /\ UNCHANGED otra
    /\ Paso
    /\ Len(clientes) < MaxId
    /\ SiguienteId(clientes) <= MaxId
    /\ IF nombre = ""
       THEN Responder("agregar_cliente", "nombre_vacio") /\ UNCHANGED datos
       ELSE /\ clientes' = Append(clientes,
                   [id |-> SiguienteId(clientes), nombre |-> nombre, dni |-> dni,
                    telefono |-> telefono])
            /\ archivos' = guardar_json(archivos, clientes', archivo_clientes)
            /\ Responder("agregar_cliente", "cliente_agregado")
            /\ UNCHANGED <<productos, vendedores, ventas>>
    /\ UNCHANGED <<pc, sel, liberados>>

EdicionCliente(c, nombre, dni, telefono) ==
    LET c1 == IF nombre # "" THEN [c EXCEPT !.nombre = nombre] ELSE c
        c2 == IF dni # "" THEN [c1 EXCEPT !.dni = dni] ELSE c1
    IN IF telefono # "" THEN [c2 EXCEPT !.telefono = telefono] ELSE c2

EditarCliente(eid, nombre, dni, telefono) ==
    /\ pc = "menu"
    /\ UNCHANGED otra
    /\ Paso
    /\ IF Len(clientes) = 0
       THEN Responder("editar_cliente", "sin_clientes") /\ UNCHANGED datos
       ELSE IF ~EsNumero(eid)
       THEN Responder("editar_cliente", "id_no_numerico") /\ UNCHANGED datos
       ELSE IF BuscarPorId(clientes, eid.n) = 0
       THEN Responder("editar_cliente", "cliente_no_encontrado") /\ UNCHANGED datos
       ELSE LET i == BuscarPorId(clientes, eid.n)
            IN /\ clientes' = [clientes EXCEPT ![i] = EdicionCliente(clientes[i], nombre, dni, telefono)]
               /\ archivos' = guardar_json(archivos, clientes', archivo_clientes)
               /\ Responder("editar_cliente", "cliente_actualizado")
               /\ UNCHANGED <<productos, vendedores, ventas>>
    /\ UNCHANGED <<pc, sel, liberados>>

\* eliminar_cliente without the check for sales of the client
EliminarClienteConVentas(eid, conf) ==
    /\ pc = "menu"
    /\ UNCHANGED otra
    /\ Paso
    /\ IF Len(clientes) = 0
       THEN Responder("eliminar_cliente", "sin_clientes") /\ UNCHANGED <<datos, liberados>>
       ELSE IF ~EsNumero(eid)
       THEN Responder("eliminar_cliente", "id_no_numerico") /\ UNCHANGED <<datos, liberados>>
       ELSE IF BuscarPorId(clientes, eid.n) = 0
       THEN Responder("eliminar_cliente", "cliente_no_encontrado") /\ UNCHANGED <<datos, liberados>>
       ELSE IF Minusculas(conf) # "s"
       THEN Responder("eliminar_cliente", "eliminacion_cancelada") /\ UNCHANGED <<datos, liberados>>
       ELSE /\ clientes' = Remover(clientes, clientes[BuscarPorId(clientes, eid.n)])
            /\ archivos' = guardar_json(archivos, clientes', archivo_clientes)
            /\ liberados' = [liberados EXCEPT ![archivo_clientes] = @ \cup {eid.n}]
            /\ Responder("eliminar_cliente", "cliente_eliminado")
            /\ UNCHANGED <<productos, vendedores, ventas>>
    /\ UNCHANGED <<pc, sel>>

EliminarCliente(eid, conf) ==
    /\ pc = "menu"
    /\ UNCHANGED otra
    /\ Paso
    /\ IF Len(clientes) = 0
       THEN Responder("eliminar_cliente", "sin_clientes") /\ UNCHANGED <<datos, liberados>>
       ELSE IF ~EsNumero(eid)
       THEN Responder("eliminar_cliente", "id_no_numerico") /\ UNCHANGED <<datos, liberados>>
       ELSE IF TieneVentas("cliente_id", eid.n)
       THEN Responder("eliminar_cliente", "tiene_ventas_asociadas") /\ UNCHANGED <<datos, liberados>>
       ELSE IF BuscarPorId(clientes, eid.n) = 0
       THEN Responder("eliminar_cliente", "cliente_no_encontrado") /\ UNCHANGED <<datos, liberados>>
       ELSE IF Minusculas(conf) # "s"
       THEN Responder("eliminar_cliente", "eliminacion_cancelada") /\ UNCHANGED <<datos, liberados>>
       ELSE /\ clientes' = Remover(clientes, clientes[BuscarPorId(clientes, eid.n)])
            /\ archivos' = guardar_json(archivos, clientes', archivo_clientes)
            /\ liberados' = [liberados EXCEPT ![archivo_clientes] = @ \cup {eid.n}]
            /\ Responder("eliminar_cliente", "cliente_eliminado")
            /\ UNCHANGED <<productos, vendedores, ventas>>
    /\ UNCHANGED <<pc, sel>>

----------------------------------------------------------------------------
(* Vendors *)

AgregarVendedor(nombre, ecom) ==
    /\ pc = "menu"
    /\ UNCHANGED otra
    /\ Paso
    /\ Len(vendedores) < MaxId
    /\ SiguienteId(vendedores) <= MaxId
    /\ IF nombre = ""
       THEN Responder("agregar_vendedor", "nombre_vacio") /\ UNCHANGED datos
       ELSE IF ~EsFlotante(ecom)
       THEN Responder("agregar_vendedor", "comision_no_numerica") /\ UNCHANGED datos
       ELSE IF FlotanteNegativo(ecom)
       THEN Responder("agregar_vendedor", "comision_negativa") /\ UNCHANGED datos
       ELSE /\ vendedores' = Append(vendedores,
                   [id |-> SiguienteId(vendedores), nombre |-> nombre,
                    comision_beneficio |-> Flotante(ecom)])
            /\ archivos' = guardar_json(archivos, vendedores', archivo_vendedores)
            /\ Responder("agregar_vendedor", "vendedor_agregado")
            /\ UNCHANGED <<productos, clientes, ventas>>
    /\ UNCHANGED <<pc, sel, liberados>>

\* Body of editar_vendedor after the vendor was found (see EdicionProducto)
EdicionVendedor(v, nombre, ecom) ==
    LET v1 == IF nombre # "" THEN [v EXCEPT !.nombre = nombre] ELSE v
        v2 == IF EsFlotante(ecom) /\ ~FlotanteNegativo(ecom)
              THEN [v1 EXCEPT !.comision_beneficio = Flotante(ecom)] ELSE v1
    IN IF ecom.t # "vacio" /\ ~EsFlotante(ecom)
       THEN [vendedor |-> v1, guardado |-> FALSE, msg |-> "comision_no_numerica"]
       ELSE [vendedor |-> v2, guardado |-> TRUE, msg |-> "vendedor_actualizado"]

EditarVendedor(eid, nombre, ecom) ==
    /\ pc = "menu"
    /\ UNCHANGED otra
    /\ Paso
    /\ IF Len(vendedores) = 0
       THEN Responder("editar_vendedor", "sin_vendedores") /\ UNCHANGED datos
       ELSE IF ~EsNumero(eid)
       THEN Responder("editar_vendedor", "id_no_numerico") /\ UNCHANGED datos
       ELSE IF BuscarPorId(vendedores, eid.n) = 0
       THEN Responder("editar_vendedor", "vendedor_no_encontrado") /\ UNCHANGED datos
       ELSE LET i == BuscarPorId(vendedores, eid.n)
                r == EdicionVendedor(vendedores[i], nombre, ecom)
            IN /\ vendedores' = [vendedores EXCEPT ![i] = r.vendedor]
               /\ archivos' = IF r.guardado
                              THEN guardar_json(archivos, vendedores', archivo_vendedores)
                              ELSE archivos
               /\ Responder("editar_vendedor", r.msg)
               /\ UNCHANGED <<productos, clientes, ventas>>
    /\ UNCHANGED <<pc, sel, liberados>>

EliminarVendedor(eid, conf) ==
    /\ pc = "menu"
    /\ UNCHANGED otra
    /\ Paso
    /\ IF Len(vendedores) = 0
       THEN Responder("eliminar_vendedor", "sin_vendedores") /\ UNCHANGED <<datos, liberados>>
       ELSE IF ~EsNumero(eid)
       THEN Responder("eliminar_vendedor", "id_no_numerico") /\ UNCHANGED <<datos, liberados>>
       ELSE IF TieneVentas("vendedor_id", eid.n)
       THEN Responder("eliminar_vendedor", "tiene_ventas_asociadas") /\ UNCHANGED <<datos, liberados>>
       ELSE IF BuscarPorId(vendedores, eid.n) = 0
       THEN Responder("eliminar_vendedor", "vendedor_no_encontrado") /\ UNCHANGED <<datos, liberados>>
       ELSE IF Minusculas(conf) # "s"
       THEN Responder("eliminar_vendedor", "eliminacion_cancelada") /\ UNCHANGED <<datos, liberados>>
       ELSE /\ vendedores' = Remover(vendedores, vendedores[BuscarPorId(vendedores, eid.n)])
            /\ archivos' = guardar_json(archivos, vendedores', archivo_vendedores)
            /\ liberados' = [liberados EXCEPT ![archivo_vendedores] = @ \cup {eid.n}]
            /\ Responder("eliminar_vendedor", "vendedor_eliminado")
            /\ UNCHANGED <<productos, clientes, ventas>>
    /\ UNCHANGED <<pc, sel>>

----------------------------------------------------------------------------
(* Sales *)

\* registrar_venta from its start to the quantity prompt: the product, client
\* and vendor prompts in the order the code asks them, each ending the
\* interaction when its answer is not a number or matches no record.
\* producto and vendedor are the positions of the records the code holds.
\* registrar_venta asking the vendor before the client
SeleccionVentaVendedorPrimero(ep, ec, ev) ==
    LET ip == BuscarPorId(productos, ep.n)
        ic == BuscarPorId(clientes, ec.n)
        iv == BuscarPorId(vendedores, ev.n)
        general == Len(clientes) = 0 \/ ec = Num(0)
        fallo(m) == [ok |-> FALSE, termina |-> FALSE, msg |-> m, sel |-> SinSeleccion]
    IN IF Len(productos) = 0 THEN fallo("sin_productos")
       ELSE IF ErrorDeListado(productos) # "ninguno"
       THEN [ok |-> FALSE, termina |-> TRUE, msg |-> ErrorDeListado(productos),
             sel |-> SinSeleccion]
       ELSE IF ~EsNumero(ep) THEN fallo("id_producto_no_numerico")
       ELSE IF ip = 0 THEN fallo("producto_no_encontrado")
       ELSE IF Len(vendedores) = 0 THEN fallo("sin_vendedores")
       ELSE IF ~EsNumero(ev) THEN fallo("id_vendedor_no_numerico")
       ELSE IF iv = 0 THEN fallo("vendedor_no_encontrado")
       ELSE IF ~general /\ ~EsNumero(ec) THEN fallo("id_cliente_no_numerico")
       ELSE IF ~general /\ ic = 0 THEN fallo("cliente_no_encontrado")
       ELSE [ok |-> TRUE, termina |-> FALSE, msg |-> "solicita_cantidad",
             sel |-> [producto |-> ip,
                      cliente_id |-> IF general THEN 0 ELSE ec.n,
                      cliente_nombre |-> IF general THEN "Cliente General" ELSE clientes[ic].nombre,
                      vendedor |-> iv,
                      cantidad |-> 0]]

SeleccionVenta(ep, ec, ev) ==
    LET ip == BuscarPorId(productos, ep.n)
        ic == BuscarPorId(clientes, ec.n)
        iv == BuscarPorId(vendedores, ev.n)
        general == Len(clientes) = 0 \/ ec = Num(0)
        fallo(m) == [ok |-> FALSE, termina |-> FALSE, msg |-> m, sel |-> SinSeleccion]
    IN IF Len(productos) = 0 THEN fallo("sin_productos")
       ELSE IF ErrorDeListado(productos) # "ninguno"
       THEN [ok |-> FALSE, termina |-> TRUE, msg |-> ErrorDeListado(productos),
             sel |-> SinSeleccion]
       ELSE IF ~EsNumero(ep) THEN fallo("id_producto_no_numerico")
       ELSE IF ip = 0 THEN fallo("producto_no_encontrado")
       ELSE IF ~general /\ ~EsNumero(ec) THEN fallo("id_cliente_no_numerico")
       ELSE IF ~general /\ ic = 0 THEN fallo("cliente_no_encontrado")
       ELSE IF Len(vendedores) = 0 THEN fallo("sin_vendedores")
       ELSE IF ~EsNumero(ev) THEN fallo("id_vendedor_no_numerico")
       ELSE IF iv = 0 THEN fallo("vendedor_no_encontrado")
       ELSE [ok |-> TRUE, termina |-> FALSE, msg |-> "solicita_cantidad",
             sel |-> [producto |-> ip,
                      cliente_id |-> IF general THEN 0 ELSE ec.n,
                      cliente_nombre |-> IF general THEN "Cliente General" ELSE clientes[ic].nombre,
                      vendedor |-> iv,
                      cantidad |-> 0]]

RegistrarVenta(ep, ec, ev) ==
    /\ pc = "menu"
    /\ UNCHANGED otra
    /\ Paso
    /\ Len(ventas) < MaxVentas
    /\ LET r == SeleccionVenta(ep, ec, ev)
       IN IF r.termina
          THEN ProcesoTermina("registrar_venta", r.msg) /\ UNCHANGED archivos
          ELSE /\ pc' = IF r.ok THEN "venta_cantidad" ELSE "menu"
               /\ sel' = r.sel
               /\ Responder("registrar_venta", r.msg)
               /\ UNCHANGED datos
    /\ UNCHANGED liberados

\* RevisionCantidad without the check of the range 1..999
RevisionCantidadSinRango(e, stock) ==
    IF ~EsDigitos(e) THEN "cantidad_no_entera"
    ELSE IF ~EsNumero(e) THEN "cantidad_debe_ser_numero"
    ELSE IF e.n > stock THEN "stock_insuficiente"
    ELSE "solicita_confirmacion"

\* RevisionCantidad without the comparison against the stock
RevisionCantidadSinStock(e, stock) ==
    IF ~EsDigitos(e) THEN "cantidad_no_entera"
    ELSE IF ~EsNumero(e) THEN "cantidad_debe_ser_numero"
    ELSE IF ~(CantidadMinima <= e.n /\ e.n <= CantidadMaxima) THEN "cantidad_fuera_de_rango"
    ELSE "solicita_confirmacion"

\* one pass of the while loop that asks the quantity; int() raising on an
\* answer isdigit() accepted leaves the loop through the except of line 346
RevisionCantidad(e, stock) ==
    IF ~EsDigitos(e) THEN "cantidad_no_entera"
    ELSE IF ~EsNumero(e) THEN "cantidad_debe_ser_numero"
    ELSE IF ~(CantidadMinima <= e.n /\ e.n <= CantidadMaxima) THEN "cantidad_fuera_de_rango"
    ELSE IF e.n > stock THEN "stock_insuficiente"
    ELSE "solicita_confirmacion"

\* a * n of a stored float and a count
Por(a, n) ==
    IF a = NaN THEN NaN
    ELSE IF a = Inf THEN (IF n = 0 THEN NaN ELSE Inf)
    ELSE a * n

\* (beneficio_total * comision_porcentaje) / 100
ComisionVendedor(beneficio_total, porcentaje) ==
    IF beneficio_total = NaN \/ porcentaje = NaN THEN NaN
    ELSE IF beneficio_total = Inf THEN (IF porcentaje = 0 THEN NaN ELSE Inf)
    ELSE IF porcentaje = Inf THEN (IF beneficio_total = 0 THEN NaN ELSE Inf)
    ELSE (beneficio_total * porcentaje) \div 100

\* The summary of the sale formats the unit price, the subtotal, the total
\* profit, the commission and the total in turn: the first exception that
\* raises, "ninguno" when none does.
ErrorDeResumen(p, v, cantidad) ==
    LET valores == <<p.precio_venta,
                     Por(p.precio_venta, cantidad),
                     Por(p.beneficio, cantidad),
                     ComisionVendedor(Por(p.beneficio, cantidad), v.comision_beneficio),
                     Por(p.precio_venta, cantidad)>>
        malos == {k \in 1..Len(valores) : ~EsFinito(valores[k])}
    IN IF malos = {} THEN "ninguno"
       ELSE ErrorDeFormato(valores[CHOOSE k \in malos : \A j \in malos : k <= j])

IngresarCantidad(e) ==
    /\ pc = "venta_cantidad"
    /\ UNCHANGED otra
    /\ UNCHANGED pasos
    /\ LET m == RevisionCantidad(e, productos[sel.producto].stock)
           error == IF m = "solicita_confirmacion"
                    THEN ErrorDeResumen(productos[sel.producto], vendedores[sel.vendedor], e.n)
                    ELSE "ninguno"
       IN IF error # "ninguno"
          THEN ProcesoTermina("registrar_venta", error) /\ UNCHANGED archivos
          ELSE /\ pc' = IF m = "solicita_confirmacion" THEN "venta_confirmar"
                        ELSE IF m = "cantidad_debe_ser_numero" THEN "menu"
                        ELSE "venta_cantidad"
               /\ sel' = IF m = "solicita_confirmacion" THEN [sel EXCEPT !.cantidad = e.n]
                         ELSE IF m = "cantidad_debe_ser_numero" THEN SinSeleccion
                         ELSE sel
               /\ Responder("registrar_venta", m)
               /\ UNCHANGED datos
    /\ UNCHANGED liberados

\* NuevaVenta charging the commission to the customer
NuevaVentaConComisionEnTotal(id, fecha, p, v, s) ==
    [id |-> id,
     fecha |-> fecha,
     producto_id |-> p.id,
     producto_nombre |-> p.nombre,
     precio_compra |-> p.precio_compra,
     beneficio_unitario |-> p.beneficio,
     cliente_id |-> s.cliente_id,
     cliente_nombre |-> s.cliente_nombre,
     vendedor_id |-> v.id,
     vendedor_nombre |-> v.nombre,
     cantidad |-> s.cantidad,
     precio_unitario |-> p.precio_venta,
     subtotal |-> p.precio_venta * s.cantidad,
     beneficio_total |-> p.beneficio * s.cantidad,
     comision |-> ((p.beneficio * s.cantidad) * v.comision_beneficio) \div 100,
     porcentaje_comision |-> v.comision_beneficio,
     total |-> p.precio_venta * s.cantidad
               + ((p.beneficio * s.cantidad) * v.comision_beneficio) \div 100]

NuevaVenta(id, fecha, p, v, s) ==
    [id |-> id,
     fecha |-> fecha,
     producto_id |-> p.id,
     producto_nombre |-> p.nombre,
     precio_compra |-> p.precio_compra,
     beneficio_unitario |-> p.beneficio,
     cliente_id |-> s.cliente_id,
     cliente_nombre |-> s.cliente_nombre,
     vendedor_id |-> v.id,
     vendedor_nombre |-> v.nombre,
     cantidad |-> s.cantidad,
     precio_unitario |-> p.precio_venta,
     subtotal |-> p.precio_venta * s.cantidad,
     beneficio_total |-> p.beneficio * s.cantidad,
     comision |-> ((p.beneficio * s.cantidad) * v.comision_beneficio) \div 100,
     porcentaje_comision |-> v.comision_beneficio,
     total |-> p.precio_venta * s.cantidad]

\* registrar_venta taking the units out of the stock before it asks to confirm
ConfirmarVentaDescuentaAntes(conf, fecha) ==
    /\ pc = "venta_confirmar"
    /\ UNCHANGED otra
    /\ UNCHANGED pasos
    /\ productos' = [productos EXCEPT ![sel.producto].stock = @ - sel.cantidad]
    /\ IF Minusculas(conf) = "s"
       THEN /\ ventas' = Append(ventas,
                   NuevaVenta(SiguienteId(ventas), fecha, productos[sel.producto],
                              vendedores[sel.vendedor], sel))
            /\ archivos' = guardar_json(guardar_json(archivos, ventas', archivo_ventas),
                                        productos', archivo_productos)
            /\ Responder("registrar_venta", "venta_registrada")
            /\ UNCHANGED <<clientes, vendedores>>
       ELSE /\ Responder("registrar_venta", "venta_cancelada")
            /\ UNCHANGED <<clientes, vendedores, ventas, archivos>>
    /\ pc' = "menu"
    /\ sel' = SinSeleccion
    /\ UNCHANGED liberados

\* registrar_venta taking one unit out of the stock whatever the quantity sold
ConfirmarVentaDescuentaUna(conf, fecha) ==
    /\ pc = "venta_confirmar"
    /\ UNCHANGED otra
    /\ UNCHANGED pasos
    /\ IF Minusculas(conf) = "s"
       THEN /\ ventas' = Append(ventas,
                   NuevaVenta(SiguienteId(ventas), fecha, productos[sel.producto],
                              vendedores[sel.vendedor], sel))
            /\ productos' = [productos EXCEPT ![sel.producto].stock = @ - 1]
            /\ archivos' = guardar_json(guardar_json(archivos, ventas', archivo_ventas),
                                        productos', archivo_productos)
            /\ Responder("registrar_venta", "venta_registrada")
            /\ UNCHANGED <<clientes, vendedores>>
       ELSE Responder("registrar_venta", "venta_cancelada") /\ UNCHANGED datos
    /\ pc' = "menu"
    /\ sel' = SinSeleccion
    /\ UNCHANGED liberados

ConfirmarVenta(conf, fecha) ==
    /\ pc = "venta_confirmar"
    /\ UNCHANGED otra
    /\ UNCHANGED pasos
    /\ IF Minusculas(conf) = "s"
       THEN /\ ventas' = Append(ventas,
                   NuevaVenta(SiguienteId(ventas), fecha, productos[sel.producto],
                              vendedores[sel.vendedor], sel))
            /\ productos' = [productos EXCEPT ![sel.producto].stock = @ - sel.cantidad]
            /\ archivos' = guardar_json(guardar_json(archivos, ventas', archivo_ventas),
                                        productos', archivo_productos)
            /\ Responder("registrar_venta", "venta_registrada")
            /\ UNCHANGED <<clientes, vendedores>>
       ELSE Responder("registrar_venta", "venta_cancelada") /\ UNCHANGED datos
    /\ pc' = "menu"
    /\ sel' = SinSeleccion
    /\ UNCHANGED liberados

----------------------------------------------------------------------------
(* Reports *)
(* A dict is the sequence of its items <<key, value>> in insertion order.  *)

TopN == 5

\* venta.get(campo, 0)
Campo(v, campo) == IF campo \in DOMAIN v THEN v[campo] ELSE 0

\* d.setdefault(k, 0) followed by d[k] += x
Acumular(d, k, x) ==
    IF \E i \in 1..Len(d) : d[i][1] = k
    THEN [i \in 1..Len(d) |-> IF d[i][1] = k THEN <<k, d[i][2] + x>> ELSE d[i]]
    ELSE Append(d, <<k, x>>)

\* the loop keyed by the id alone, the name being that of the first sale
SumarPorId(vs, id, nombre, valor) ==
    LET d[n \in 0..Len(vs)] ==
            IF n = 0 THEN <<>>
            ELSE IF \E i \in 1..Len(d[n - 1]) : d[n - 1][i][1][1] = vs[n][id]
                 THEN [i \in 1..Len(d[n - 1]) |->
                          IF d[n - 1][i][1][1] = vs[n][id]
                          THEN <<d[n - 1][i][1], d[n - 1][i][2] + vs[n][valor]>>
                          ELSE d[n - 1][i]]
                 ELSE Append(d[n - 1], <<(<<vs[n][id], vs[n][nombre]>>), vs[n][valor]>>)
    IN d[Len(vs)]

\* the loop "for venta in vs: d[(venta[id], venta[nombre])] += venta[valor]"
SumarPor(vs, id, nombre, valor) ==
    LET d[n \in 0..Len(vs)] ==
            IF n = 0 THEN <<>>
            ELSE Acumular(d[n - 1], <<vs[n][id], vs[n][nombre]>>, vs[n][valor])
    IN d[Len(vs)]

\* the loop "for venta in vs: total += venta.get(campo, 0)" from total = 0
Sumar(vs, campo) ==
    LET t[n \in 0..Len(vs)] == IF n = 0 THEN 0 ELSE t[n - 1] + Campo(vs[n], campo)
    IN t[Len(vs)]

\* sum(d.values())
SumarValores(d) ==
    LET t[n \in 0..Len(d)] == IF n = 0 THEN 0 ELSE t[n - 1] + d[n][2]
    IN t[Len(d)]

\* Insertar putting x before the items of the same value: a sort that is not stable
InsertarAntesDeIguales(orden, x) ==
    LET antes == {i \in 1..Len(orden) : orden[i][2] > x[2]}
        k == Cardinality(antes)
    IN SubSeq(orden, 1, k) \o <<x>> \o SubSeq(orden, k + 1, Len(orden))

\* x put into a sequence sorted by value descending, behind the items that
\* are not smaller
Insertar(orden, x) ==
    LET antes == {i \in 1..Len(orden) : orden[i][2] >= x[2]}
        k == Cardinality(antes)
    IN SubSeq(orden, 1, k) \o <<x>> \o SubSeq(orden, k + 1, Len(orden))

\* sorted(d.items(), key=lambda item: item[1], reverse=True): stable
OrdenarPorValor(d) ==
    LET o[n \in 0..Len(d)] == IF n = 0 THEN <<>> ELSE Insertar(o[n - 1], d[n])
    IN o[Len(d)]

\* seq[:n]
Primeros(seq, n) == SubSeq(seq, 1, IF Len(seq) < n THEN Len(seq) ELSE n)

\* the totals loop adding each sale's unit profit instead of its total profit
TotalesDeUnidad(vs) ==
    [ingresos |-> Sumar(vs, "total"),
     comisiones |-> Sumar(vs, "comision"),
     beneficios |-> Sumar(vs, "beneficio_unitario")]

\* the totals loop of listar_ventas and mostrar_reporte_ventas_personalizado
Totales(vs) ==
    [ingresos |-> Sumar(vs, "total"),
     comisiones |-> Sumar(vs, "comision"),
     beneficios |-> Sumar(vs, "beneficio_total")]

\* strftime('%d/%m/%Y')
strftime_dmy(t) == <<strftime(t)[3], strftime(t)[2], strftime(t)[1]>>

\* the try of the loops over self.ventas: strptime raises ValueError or not
SeLee(v) == FechaValida(v.fecha)

\* obtener_ventas_semanales leaving out a sale made at the very end of the week
obtener_ventas_semanales_sin_fin(ahora) ==
    LET inicio_periodo == InicioSemana(ahora)
        fin_periodo == FinSemana(inicio_periodo)
        EnPeriodo(v) ==
            /\ SeLee(v)
            /\ NoPosterior(inicio_periodo, strptime(v.fecha))
            /\ Anterior(strptime(v.fecha), fin_periodo)
    IN [ventas |-> SelectSeq(ventas, EnPeriodo),
        inicio |-> inicio_periodo,
        fin |-> fin_periodo,
        rango |-> <<strftime_dmy(inicio_periodo), strftime_dmy(fin_periodo)>>]

obtener_ventas_semanales(ahora) ==
    LET inicio_periodo == InicioSemana(ahora)
        fin_periodo == FinSemana(inicio_periodo)
        EnPeriodo(v) ==
            /\ SeLee(v)
            /\ NoPosterior(inicio_periodo, strptime(v.fecha))
            /\ NoPosterior(strptime(v.fecha), fin_periodo)
    IN [ventas |-> SelectSeq(ventas, EnPeriodo),
        inicio |-> inicio_periodo,
        fin |-> fin_periodo,
        rango |-> <<strftime_dmy(inicio_periodo), strftime_dmy(fin_periodo)>>]

\* "if k not in d: d[k] = []" followed by d[k].append(v)
Agrupar(d, k, v) ==
    IF \E i \in 1..Len(d) : d[i][1] = k
    THEN [i \in 1..Len(d) |-> IF d[i][1] = k THEN <<k, Append(d[i][2], v)>> ELSE d[i]]
    ELSE Append(d, <<k, <<v>>>>)

\* x put into a sequence sorted by key descending
InsertarSemana(orden, x) ==
    LET antes == {i \in 1..Len(orden) : ~TextoMenor(orden[i][1], x[1])}
        k == Cardinality(antes)
    IN SubSeq(orden, 1, k) \o <<x>> \o SubSeq(orden, k + 1, Len(orden))

\* sorted(d.items(), reverse=True) of a dict with text keys
OrdenarSemanas(d) ==
    LET o[n \in 0..Len(d)] == IF n = 0 THEN <<>> ELSE InsertarSemana(o[n - 1], d[n])
    IN o[Len(d)]

\* obtener_semanas_disponibles without the test that leaves the current week
\* and what comes after it out
obtener_semanas_disponibles_sin_filtro(ahora) ==
    LET ventas_con_fecha == SelectSeq(ventas, SeLee)
        d[n \in 0..Len(ventas_con_fecha)] ==
            IF n = 0 THEN <<>>
            ELSE LET fecha_venta == strptime(ventas_con_fecha[n].fecha)
                 IN Agrupar(d[n - 1], strftime_dia(InicioSemana(fecha_venta)),
                            ventas_con_fecha[n])
        ordenadas == OrdenarSemanas(d[Len(ventas_con_fecha)])
    IN [i \in 1..Len(ordenadas) |->
           LET inicio_dt == strptime_dia(ordenadas[i][1])
               fin_dt == FinSemana(inicio_dt)
           IN [rango |-> <<strftime_dmy(inicio_dt), strftime_dmy(fin_dt)>>,
               ventas |-> ordenadas[i][2]]]

\* obtener_semanas_disponibles taking a sale made at the start of the current
\* week for a past one
obtener_semanas_disponibles_con_inicio(ahora) ==
    LET ventas_con_fecha == SelectSeq(ventas, SeLee)
        inicio_semana_actual == InicioSemana(ahora)
        d[n \in 0..Len(ventas_con_fecha)] ==
            IF n = 0 THEN <<>>
            ELSE LET fecha_venta == strptime(ventas_con_fecha[n].fecha)
                 IN IF NoPosterior(fecha_venta, inicio_semana_actual)
                    THEN Agrupar(d[n - 1], strftime_dia(InicioSemana(fecha_venta)),
                                 ventas_con_fecha[n])
                    ELSE d[n - 1]
        ordenadas == OrdenarSemanas(d[Len(ventas_con_fecha)])
    IN [i \in 1..Len(ordenadas) |->
           LET inicio_dt == strptime_dia(ordenadas[i][1])
               fin_dt == FinSemana(inicio_dt)
           IN [rango |-> <<strftime_dmy(inicio_dt), strftime_dmy(fin_dt)>>,
               ventas |-> ordenadas[i][2]]]

obtener_semanas_disponibles(ahora) ==
    LET ventas_con_fecha == SelectSeq(ventas, SeLee)
        inicio_semana_actual == InicioSemana(ahora)
        d[n \in 0..Len(ventas_con_fecha)] ==
            IF n = 0 THEN <<>>
            ELSE LET fecha_venta == strptime(ventas_con_fecha[n].fecha)
                 IN IF Anterior(fecha_venta, inicio_semana_actual)
                    THEN Agrupar(d[n - 1], strftime_dia(InicioSemana(fecha_venta)),
                                 ventas_con_fecha[n])
                    ELSE d[n - 1]
        ordenadas == OrdenarSemanas(d[Len(ventas_con_fecha)])
    IN [i \in 1..Len(ordenadas) |->
           LET inicio_dt == strptime_dia(ordenadas[i][1])
               fin_dt == FinSemana(inicio_dt)
           IN [rango |-> <<strftime_dmy(inicio_dt), strftime_dmy(fin_dt)>>,
               ventas |-> ordenadas[i][2]]]

ListarVentas ==
    /\ pc = "menu"
    /\ UNCHANGED otra
    /\ Paso
    /\ salida' = IF Len(ventas) = 0
                 THEN [op |-> "listar_ventas", msg |-> "sin_ventas"]
                 ELSE [op |-> "listar_ventas", msg |-> "totales",
                       ventas |-> ventas, totales |-> Totales(ventas)]
    /\ UNCHANGED <<datos, pc, sel, liberados>>

ReporteVentasPeriodo(ahora) ==
    /\ pc = "menu"
    /\ UNCHANGED otra
    /\ Paso
    /\ LET r == obtener_ventas_semanales(ahora)
       IN salida' = IF Len(r.ventas) = 0
                    THEN [op |-> "reporte_ventas_periodo", msg |-> "sin_ventas_semana",
                          ahora |-> ahora, inicio |-> r.inicio, fin |-> r.fin,
                          rango |-> r.rango, ventas |-> r.ventas]
                    ELSE [op |-> "reporte_ventas_periodo", msg |-> "totales",
                          ahora |-> ahora, inicio |-> r.inicio, fin |-> r.fin,
                          rango |-> r.rango, ventas |-> r.ventas,
                          totales |-> Totales(r.ventas)]
    /\ UNCHANGED <<datos, pc, sel, liberados>>

\* reporte_pago_vendedores listing the vendors by amount, as the rankings do
ReportePagoVendedoresOrdenado(ahora) ==
    /\ pc = "menu"
    /\ UNCHANGED otra
    /\ Paso
    /\ LET r == obtener_ventas_semanales(ahora)
           pago_vendedores_semanal ==
               OrdenarPorValor(SumarPor(r.ventas, "vendedor_id", "vendedor_nombre",
                                        "comision"))
       IN salida' = IF Len(pago_vendedores_semanal) = 0
                    THEN [op |-> "reporte_pago_vendedores", msg |-> "sin_comisiones",
                          ahora |-> ahora, ventas |-> r.ventas,
                          pagos |-> pago_vendedores_semanal]
                    ELSE [op |-> "reporte_pago_vendedores", msg |-> "pagos",
                          ahora |-> ahora, ventas |-> r.ventas,
                          pagos |-> pago_vendedores_semanal,
                          total |-> SumarValores(pago_vendedores_semanal)]
    /\ UNCHANGED <<datos, pc, sel, liberados>>

ReportePagoVendedores(ahora) ==
    /\ pc = "menu"
    /\ UNCHANGED otra
    /\ Paso
    /\ LET r == obtener_ventas_semanales(ahora)
           pago_vendedores_semanal ==
               SumarPor(r.ventas, "vendedor_id", "vendedor_nombre", "comision")
       IN salida' = IF Len(pago_vendedores_semanal) = 0
                    THEN [op |-> "reporte_pago_vendedores", msg |-> "sin_comisiones",
                          ahora |-> ahora, ventas |-> r.ventas,
                          pagos |-> pago_vendedores_semanal]
                    ELSE [op |-> "reporte_pago_vendedores", msg |-> "pagos",
                          ahora |-> ahora, ventas |-> r.ventas,
                          pagos |-> pago_vendedores_semanal,
                          total |-> SumarValores(pago_vendedores_semanal)]
    /\ UNCHANGED <<datos, pc, sel, liberados>>

ReporteTopClientesProductos ==
    /\ pc = "menu"
    /\ UNCHANGED otra
    /\ Paso
    /\ salida' =
         IF Len(ventas) = 0
         THEN [op |-> "reporte_top_clientes_productos", msg |-> "sin_ventas"]
         ELSE [op |-> "reporte_top_clientes_productos", msg |-> "top",
               top_clientes |->
                   Primeros(OrdenarPorValor(
                       SumarPor(ventas, "cliente_id", "cliente_nombre", "total")), TopN),
               top_productos |->
                   Primeros(OrdenarPorValor(
                       SumarPor(ventas, "producto_id", "producto_nombre", "cantidad")), TopN)]
    /\ UNCHANGED <<datos, pc, sel, liberados>>

\* menu_ventas_semanas_pasadas: the list of the past weeks, one choice from
\* it, and then 0 to go back.  Choosing a listed week shows its sales with
\* mostrar_reporte_ventas_personalizado.
MenuVentasSemanasPasadas(ahora, opcion) ==
    /\ pc = "menu"
    /\ UNCHANGED otra
    /\ Paso
    /\ LET semanas_disponibles ==
               IF Len(ventas) = 0 THEN <<>> ELSE obtener_semanas_disponibles(ahora)
       IN salida' =
              IF Len(semanas_disponibles) = 0
              THEN [op |-> "menu_ventas_semanas_pasadas", msg |-> "sin_semanas",
                    ahora |-> ahora, semanas |-> semanas_disponibles]
              ELSE IF opcion = 0
              THEN [op |-> "menu_ventas_semanas_pasadas", msg |-> "semanas",
                    ahora |-> ahora, semanas |-> semanas_disponibles]
              ELSE IF opcion \in 1..Len(semanas_disponibles)
              THEN [op |-> "menu_ventas_semanas_pasadas", msg |-> "totales",
                    ahora |-> ahora, semanas |-> semanas_disponibles,
                    rango |-> semanas_disponibles[opcion].rango,
                    ventas |-> semanas_disponibles[opcion].ventas,
                    totales |-> Totales(semanas_disponibles[opcion].ventas)]
              ELSE [op |-> "menu_ventas_semanas_pasadas", msg |-> "opcion_invalida",
                    ahora |-> ahora, semanas |-> semanas_disponibles]
    /\ UNCHANGED <<datos, pc, sel, liberados>>

----------------------------------------------------------------------------
(* Initial states: cargar_datos loads the four files, so the program starts   *)
(* from whatever an earlier run saved.  Three such saved stores are taken:    *)
(* the empty one of a first run, a catalog as agregar_* write it, and that    *)
(* catalog after one recorded sale.                                           *)

ProductoInicial(id, stock) == NuevoProducto(id, "a", 1, 2, stock)
ClienteInicial == [id |-> 1, nombre |-> "a", dni |-> "d", telefono |-> ""]
VendedorInicial == [id |-> 1, nombre |-> "a", comision_beneficio |-> 50]

AlmacenVacio ==
    [productos |-> <<>>, clientes |-> <<>>, vendedores |-> <<>>, ventas |-> <<>>]

AlmacenCatalogo ==
    [productos |-> <<ProductoInicial(1, MaxStock), ProductoInicial(2, MaxStock)>>,
     clientes |-> <<ClienteInicial>>,
     vendedores |-> <<VendedorInicial>>,
     ventas |-> <<>>]

AlmacenConVenta ==
    [productos |-> <<ProductoInicial(1, MaxStock - 1), ProductoInicial(2, MaxStock)>>,
     clientes |-> <<ClienteInicial>>,
     vendedores |-> <<VendedorInicial>>,
     ventas |-> <<NuevaVenta(1, <<2024, 6, 1, 10, 0, 0>>, ProductoInicial(1, MaxStock), VendedorInicial,
                             [cliente_id |-> 1, cliente_nombre |-> "a", cantidad |-> 1])>>]

AlmacenesIniciales == {AlmacenVacio, AlmacenCatalogo, AlmacenConVenta}

Init ==
    /\ \E a \in AlmacenesIniciales :
          /\ productos = a.productos
          /\ clientes = a.clientes
          /\ vendedores = a.vendedores
          /\ ventas = a.ventas
          /\ archivos = [f \in Archivos |->
                            IF f = archivo_productos THEN ArchivoJson(json_dump(a.productos))
                            ELSE IF f = archivo_clientes THEN ArchivoJson(json_dump(a.clientes))
                            ELSE IF f = archivo_vendedores
                            THEN ArchivoJson(json_dump(a.vendedores))
                            ELSE ArchivoJson(json_dump(a.ventas))]
    /\ pc = "menu"
    /\ sel = SinSeleccion
    /\ salida = [op |-> "inicio", msg |-> ""]
    /\ liberados = [f \in Archivos |-> {}]
    /\ pasos = 0
    /\ otra = SinOtra

----------------------------------------------------------------------------
Next ==
    \/ \E e \in EntradasAltaProducto : AgregarProducto(e[1], e[2], e[3], e[4])
    \/ \E id \in EntradasId, e \in EntradasEdicionProducto : EditarProducto(id, e[1], e[2], e[3], e[4])
    \/ \E e \in EntradasPorcentaje, c \in EntradasConfirmar : ActualizarCostoMasivo(e, c)
    \/ \E id \in EntradasId, c \in EntradasConfirmar : EliminarProducto(id, c)
    \/ ListarProductos
    \/ \E t \in EntradasBusqueda : BuscarProductos(t)
    \/ \E e \in EntradasAltaCliente : AgregarCliente(e[1], e[2], e[3])
    \/ \E id \in EntradasId, e \in EntradasEdicionCliente : EditarCliente(id, e[1], e[2], e[3])
    \/ \E id \in EntradasIdCliente, c \in EntradasConfirmar : EliminarCliente(id, c)
    \/ \E e \in EntradasAltaVendedor : AgregarVendedor(e[1], e[2])
    \/ \E id \in EntradasId, e \in EntradasEdicionVendedor : EditarVendedor(id, e[1], e[2])
    \/ \E id \in EntradasId, c \in EntradasConfirmar : EliminarVendedor(id, c)
    \/ \E ep \in EntradasId, ec \in EntradasIdCliente, ev \in EntradasId : RegistrarVenta(ep, ec, ev)
    \/ \E e \in EntradasCantidad : IngresarCantidad(e)
    \/ \E c \in EntradasConfirmar, f \in Instantes : ConfirmarVenta(c, f)

Spec == Init /\ [][Next]_vars

----------------------------------------------------------------------------
(* The program with a user who answers the quantity prompt of               *)
(* registrar_venta with whole numbers from 1 to 999 only, goes on answering *)
(* while the program asks, and gives a quantity the program accepts         *)
(* whenever there is one.                                                   *)

EntradasCantidadEnRango == {Num(q) : q \in 1..MaxStock} \cup {Num(CantidadMaxima)}

NextAtendida ==
    \/ \E e \in EntradasAltaProducto : AgregarProducto(e[1], e[2], e[3], e[4])
    \/ \E id \in EntradasId, e \in EntradasEdicionProducto : EditarProducto(id, e[1], e[2], e[3], e[4])
    \/ \E e \in EntradasPorcentaje, c \in EntradasConfirmar : ActualizarCostoMasivo(e, c)
    \/ \E id \in EntradasId, c \in EntradasConfirmar : EliminarProducto(id, c)
    \/ ListarProductos
    \/ \E t \in EntradasBusqueda : BuscarProductos(t)
    \/ \E e \in EntradasAltaCliente : AgregarCliente(e[1], e[2], e[3])
    \/ \E id \in EntradasId, e \in EntradasEdicionCliente : EditarCliente(id, e[1], e[2], e[3])
    \/ \E id \in EntradasIdCliente, c \in EntradasConfirmar : EliminarCliente(id, c)
    \/ \E e \in EntradasAltaVendedor : AgregarVendedor(e[1], e[2])
    \/ \E id \in EntradasId, e \in EntradasEdicionVendedor : EditarVendedor(id, e[1], e[2])
    \/ \E id \in EntradasId, c \in EntradasConfirmar : EliminarVendedor(id, c)
    \/ \E ep \in EntradasId, ec \in EntradasIdCliente, ev \in EntradasId : RegistrarVenta(ep, ec, ev)
    \/ \E e \in EntradasCantidadEnRango : IngresarCantidad(e)
    \/ \E c \in EntradasConfirmar, f \in Instantes : ConfirmarVenta(c, f)

SpecVentaAtendida ==
    /\ Init
    /\ [][NextAtendida]_vars
    /\ WF_vars(\E e \in EntradasCantidadEnRango : IngresarCantidad(e))
    /\ SF_vars(\E e \in EntradasCantidadEnRango :
                  IngresarCantidad(e) /\ pc' = "venta_confirmar")
    /\ WF_vars(\E c \in EntradasConfirmar, f \in Instantes : ConfirmarVenta(c, f))

----------------------------------------------------------------------------
(* The reports on a loaded ledger.  ventas.json holds what earlier runs     *)
(* saved, or what was written into it by hand: the ledgers taken are the    *)
(* short ones over six sales of different weeks, clients, vendors and       *)
(* products, one of them with a date that does not parse, and the ledgers   *)
(* of TopN + 1 sales to as many clients of one or three units each.  A      *)
(* report changes nothing but the screen, so what it shows depends on the   *)
(* ledger and the clock alone: it is taken as the last option of a run.     *)

VendedorDeMuestra(id, nombre, comision) ==
    [id |-> id, nombre |-> nombre, comision_beneficio |-> comision]

CompradorDeMuestra(id, nombre, cantidad) ==
    [cliente_id |-> id, cliente_nombre |-> nombre, cantidad |-> cantidad]

Muestras ==
    {NuevaVenta(1, <<2024, 6, 8, 23, 59, 59>>, NuevoProducto(1, "a", 1, 2, 9),
                VendedorDeMuestra(1, "a", 50), CompradorDeMuestra(1, "a", 1)),
     NuevaVenta(1, <<2024, 6, 9, 0, 0, 0>>, NuevoProducto(2, "b", 2, 2, 9),
                VendedorDeMuestra(2, "b", 100), CompradorDeMuestra(2, "b", 3)),
     NuevaVenta(1, <<2024, 6, 15, 23, 59, 59>>, NuevoProducto(1, "a", 1, 2, 9),
                VendedorDeMuestra(1, "a", 50), CompradorDeMuestra(0, "Cliente General", 3)),
     NuevaVenta(1, <<2024, 2, 30, 0, 0, 0>>, NuevoProducto(2, "b", 2, 2, 9),
                VendedorDeMuestra(2, "b", 100), CompradorDeMuestra(2, "b", 1)),
     NuevaVenta(1, <<2023, 12, 31, 0, 0, 0>>, NuevoProducto(1, "c", 1, 2, 9),
                VendedorDeMuestra(1, "c", 50), CompradorDeMuestra(1, "c", 1)),
     NuevaVenta(1, <<2024, 6, 3, 12, 0, 0>>, NuevoProducto(2, "b", 2, 2, 9),
                VendedorDeMuestra(1, "a", 50), CompradorDeMuestra(1, "a", 2))}

\* a ledger of the given sales with the ids registrar_venta gives: 1, 2, ...
Libro(vs) == [i \in 1..Len(vs) |-> [vs[i] EXCEPT !.id = i]]

LibrosCortos ==
    UNION {{Libro(vs) : vs \in [1..n -> Muestras]} : n \in 0..MaxLibro}

LibrosLargos ==
    {Libro([i \in 1..(TopN + 1) |->
               NuevaVenta(i, <<2024, 6, 10, 12, 0, 0>>, NuevoProducto(i, "a", 1, 2, 9),
                          VendedorDeMuestra(i, "a", 50), CompradorDeMuestra(i, "a", q[i]))]) :
        q \in [1..(TopN + 1) -> {1, 3}]}

InitInformes ==
    /\ ventas \in LibrosCortos \cup LibrosLargos
    /\ productos = <<>>
    /\ clientes = <<>>
    /\ vendedores = <<>>
    /\ archivos = [f \in Archivos |->
                      IF f = archivo_ventas THEN ArchivoJson(json_dump(ventas))
                      ELSE ArchivoJson(json_dump(<<>>))]
    /\ pc = "menu"
    /\ sel = SinSeleccion
    /\ salida = [op |-> "inicio", msg |-> ""]
    /\ liberados = [f \in Archivos |-> {}]
    /\ pasos = MaxPasos - 1
    /\ otra = SinOtra

\* the answers to "Seleccione una opcion" of menu_ventas_semanas_pasadas:
\* 0, each week a ledger can have, and one number too many
OpcionesSemana == 0..(MaxLibro + 1)

NextInformes ==
    \/ ListarVentas
    \/ ReporteTopClientesProductos
    \/ \E ahora \in Ahoras : ReporteVentasPeriodo(ahora)
    \/ \E ahora \in Ahoras : ReportePagoVendedores(ahora)
    \/ \E ahora \in Ahoras, opcion \in OpcionesSemana : MenuVentasSemanasPasadas(ahora, opcion)

SpecInformes == InitInformes /\ [][NextInformes]_vars

----------------------------------------------------------------------------
(* Starting and leaving the program *)

\* the files in the order cargar_datos loads them
OrdenDeCarga == <<archivo_productos, archivo_clientes, archivo_vendedores, archivo_ventas>>

\* the body of the loop of _corregir_datos_clientes keeping the 'email' key it moves
CorregirClienteSinQuitar(c) ==
    LET renombra == "email" \in Campos(c) /\ "dni" \notin Campos(c)
        o1 == IF renombra THEN Append(Claves(c), "dni") ELSE Claves(c)
        o2 == IF \A i \in 1..Len(o1) : o1[i] # "telefono" THEN Append(o1, "telefono") ELSE o1
    IN Dict(o2, [k \in {o2[i] : i \in 1..Len(o2)} |->
                    IF k \in Campos(c) THEN c[k]
                    ELSE IF k = "dni" THEN c["email"]
                    ELSE ""])

\* the body of the loop of _corregir_datos_clientes for one client: pop takes
\* 'email' out and each assignment of a new key puts it last
CorregirCliente(c) ==
    LET renombra == "email" \in Campos(c) /\ "dni" \notin Campos(c)
        o1 == IF renombra
              THEN Append(SelectSeq(Claves(c), LAMBDA k : k # "email"), "dni")
              ELSE Claves(c)
        o2 == IF \A i \in 1..Len(o1) : o1[i] # "dni" THEN Append(o1, "dni") ELSE o1
        o3 == IF \A i \in 1..Len(o2) : o2[i] # "telefono" THEN Append(o2, "telefono") ELSE o2
    IN Dict(o3, [k \in {o3[i] : i \in 1..Len(o3)} |->
                    IF k = "dni" /\ renombra THEN c["email"]
                    ELSE IF k \in Campos(c) THEN c[k]
                    ELSE ""])

\* _corregir_datos_clientes: the clients it leaves in memory and whether it saves them
corregir_datos_clientes(cs) ==
    [clientes |-> [i \in 1..Len(cs) |-> CorregirCliente(cs[i])],
     cambio_realizado |-> \E i \in 1..Len(cs) :
                              "email" \in Campos(cs[i]) /\ "dni" \notin Campos(cs[i])]

\* SistemaVentas(): cargar_datos loads the four files in order, creating the
\* missing ones; a file that cannot be read (cargar_json raises instead of
\* returning) ends the program there
CargarDatos ==
    /\ pc = "apagado"
    /\ UNCHANGED otra
    /\ LET cargar_json_falla(f) == archivos[f].estado = "ilegible"
           PosicionDeCarga(f) == CHOOSE n \in 1..Len(OrdenDeCarga) : OrdenDeCarga[n] = f
           \* the position of the first file whose load raises, one past the
           \* last file when none does
           k == IF \E n \in 1..Len(OrdenDeCarga) : cargar_json_falla(OrdenDeCarga[n])
                THEN CHOOSE n \in 1..Len(OrdenDeCarga) :
                         /\ cargar_json_falla(OrdenDeCarga[n])
                         /\ \A j \in 1..(n - 1) : ~cargar_json_falla(OrdenDeCarga[j])
                ELSE Len(OrdenDeCarga) + 1
           creados == [f \in Archivos |->
                          IF PosicionDeCarga(f) < k THEN cargar_json_crea(archivos, f)[f]
                          ELSE archivos[f]]
           corr == corregir_datos_clientes(cargar_json(archivos, archivo_clientes))
       IN IF k <= Len(OrdenDeCarga)
          THEN /\ archivos' = creados
               /\ salida' = [op |-> "cargar_datos", msg |-> "UnicodeDecodeError",
                             archivo |-> OrdenDeCarga[k]]
               /\ UNCHANGED <<productos, clientes, vendedores, ventas, pc>>
          ELSE /\ productos' = cargar_json(archivos, archivo_productos)
               /\ clientes' = corr.clientes
               /\ vendedores' = cargar_json(archivos, archivo_vendedores)
               /\ ventas' = cargar_json(archivos, archivo_ventas)
               /\ archivos' = IF corr.cambio_realizado
                              THEN guardar_json(creados, corr.clientes, archivo_clientes)
                              ELSE creados
               /\ salida' = [op |-> "cargar_datos", msg |-> "cargado",
                             cambio_realizado |-> corr.cambio_realizado]
               /\ pc' = "menu"
    /\ sel' = SinSeleccion
    /\ UNCHANGED <<liberados, pasos>>

\* option 5 of ejecutar: the loop ends and the process with it
Salir ==
    /\ pc = "menu"
    /\ UNCHANGED otra
    /\ productos' = <<>>
    /\ clientes' = <<>>
    /\ vendedores' = <<>>
    /\ ventas' = <<>>
    /\ pc' = "apagado"
    /\ sel' = SinSeleccion
    /\ salida' = [op |-> "ejecutar", msg |-> "salir"]
    /\ UNCHANGED <<archivos, liberados, pasos>>

\* client files written before the 'dni' key existed
ClientesAntiguos ==
    {<<[id |-> 1, nombre |-> "a", email |-> "e", telefono |-> "t"], [id |-> 2, nombre |-> "b"]>>,
     <<[id |-> 1, nombre |-> "a", email |-> "e", dni |-> "d"]>>,
     <<[id |-> 1, nombre |-> "a", email |-> "e"]>>,
     <<[id |-> 1, nombre |-> "a", telefono |-> "t"]>>}

\* what the program can find in each of its files when it starts
ArchivosAlArrancar ==
    {fs \in [Archivos -> {ArchivoAusente, ArchivoCorrupto, ArchivoIlegible}
                             \cup {ArchivoJson(json_dump(c)) : c \in ClientesAntiguos}
                             \cup {ArchivoJson(json_dump(<<ClienteInicial>>)),
                                   ArchivoJson(json_dump(<<VendedorInicial>>)),
                                   ArchivoJson(json_dump(<<ProductoInicial(1, MaxStock)>>))}] :
        /\ fs[archivo_productos] \in {ArchivoAusente, ArchivoCorrupto, ArchivoIlegible,
                                      ArchivoJson(json_dump(<<ProductoInicial(1, MaxStock)>>))}
        /\ fs[archivo_clientes] \in {ArchivoAusente, ArchivoCorrupto,
                                     ArchivoJson(json_dump(<<ClienteInicial>>))}
                                        \cup {ArchivoJson(json_dump(c)) : c \in ClientesAntiguos}
        /\ fs[archivo_vendedores] \in {ArchivoAusente,
                                       ArchivoJson(json_dump(<<VendedorInicial>>))}
        /\ fs[archivo_ventas] \in {ArchivoAusente, ArchivoCorrupto, ArchivoIlegible}}

InitArranque ==
    /\ productos = <<>>
    /\ clientes = <<>>
    /\ vendedores = <<>>
    /\ ventas = <<>>
    /\ archivos \in ArchivosAlArrancar
    /\ pc = "apagado"
    /\ sel = SinSeleccion
    /\ salida = [op |-> "inicio", msg |-> ""]
    /\ liberados = [f \in Archivos |-> {}]
    /\ pasos = 0
    /\ otra = SinOtra

NextArranque ==
    \/ CargarDatos
    \/ Salir
    \/ \E e \in EntradasAltaProducto : AgregarProducto(e[1], e[2], e[3], e[4])
    \/ ListarProductos
    \/ \E t \in EntradasBusqueda : BuscarProductos(t)
    \/ \E e \in EntradasAltaCliente : AgregarCliente(e[1], e[2], e[3])
    \/ \E e \in EntradasAltaVendedor : AgregarVendedor(e[1], e[2])
    \/ \E ep \in EntradasId, ec \in EntradasIdCliente, ev \in EntradasId : RegistrarVenta(ep, ec, ev)
    \/ \E e \in EntradasCantidad : IngresarCantidad(e)
    \/ \E c \in EntradasConfirmar, f \in Instantes : ConfirmarVenta(c, f)

SpecArranque == InitArranque /\ [][NextArranque]_vars

----------------------------------------------------------------------------
(* The process ending at any point *)

\* guardar_json cut short: open(archivo, 'w') has emptied the file and the
\* process ends before json.dump has written the whole text and the file is
\* closed; what is left is no JSON text
guardar_json_interrumpido(fs, archivo) == [fs EXCEPT ![archivo] = ArchivoCorrupto]

\* the points of a confirmed registrar_venta at which the process can end
PuntosDeCaida ==
    {"antes_de_guardar", "ventas_abierto", "entre_escrituras", "productos_abierto",
     "despues_de_guardar"}

\* a confirmed registrar_venta that runs up to a point and ends there with the process
ConfirmarVentaInterrumpida(conf, fecha, punto) ==
    /\ pc = "venta_confirmar"
    /\ UNCHANGED otra
    /\ UNCHANGED pasos
    /\ Minusculas(conf) = "s"
    /\ LET vs == Append(ventas,
                    NuevaVenta(SiguienteId(ventas), fecha, productos[sel.producto],
                               vendedores[sel.vendedor], sel))
           ps == [productos EXCEPT ![sel.producto].stock = @ - sel.cantidad]
       IN archivos' =
             CASE punto = "antes_de_guardar" -> archivos
               [] punto = "ventas_abierto" -> guardar_json_interrumpido(archivos, archivo_ventas)
               [] punto = "entre_escrituras" -> guardar_json(archivos, vs, archivo_ventas)
               [] punto = "productos_abierto" ->
                     guardar_json_interrumpido(guardar_json(archivos, vs, archivo_ventas),
                                               archivo_productos)
               [] punto = "despues_de_guardar" ->
                     guardar_json(guardar_json(archivos, vs, archivo_ventas),
                                  ps, archivo_productos)
    /\ productos' = <<>>
    /\ clientes' = <<>>
    /\ vendedores' = <<>>
    /\ ventas' = <<>>
    /\ salida' = [op |-> "registrar_venta", msg |-> "caida", punto |-> punto]
    /\ pc' = "apagado"
    /\ sel' = SinSeleccion
    /\ UNCHANGED liberados

\* the process ending while it waits for an answer
Caida ==
    /\ pc \in {"menu", "venta_cantidad", "venta_confirmar"}
    /\ UNCHANGED otra
    /\ productos' = <<>>
    /\ clientes' = <<>>
    /\ vendedores' = <<>>
    /\ ventas' = <<>>
    /\ salida' = [op |-> "caida", msg |-> pc]
    /\ pc' = "apagado"
    /\ sel' = SinSeleccion
    /\ UNCHANGED <<archivos, liberados, pasos>>

NextCaidas ==
    \/ \E ep \in EntradasId, ec \in EntradasIdCliente, ev \in EntradasId : RegistrarVenta(ep, ec, ev)
    \/ \E e \in EntradasCantidad : IngresarCantidad(e)
    \/ \E c \in EntradasConfirmar, f \in Instantes : ConfirmarVenta(c, f)
    \/ \E c \in EntradasConfirmar, f \in Instantes, p \in PuntosDeCaida :
          ConfirmarVentaInterrumpida(c, f, p)
    \/ Caida
    \/ CargarDatos

SpecCaidas == Init /\ [][NextCaidas]_vars

----------------------------------------------------------------------------
(* Two processes of the program on the same files *)

\* With a second process on the same files what matters is the order in which
\* the two reach the files.  A confirmed registrar_venta saves twice (lines 409
\* and 413), and guardar_json reaches its file twice: open(archivo, 'w') cuts
\* it, and the text is written when the file is closed.  Nothing keeps the
\* other process from the file in between, so here the process is taken
\* through the confirmation in four steps, one for each time it reaches a file.

\* registrar_venta from the answer to the confirmation to the opening of the
\* ledger file: the sale is numbered and appended (386-408) and guardar_json
\* has opened ventas.json (103)
ConfirmarVentaAbreVentas(conf, fecha) ==
    /\ pc = "venta_confirmar"
    /\ UNCHANGED otra
    /\ UNCHANGED pasos
    /\ IF Minusculas(conf) = "s"
       THEN /\ ventas' = Append(ventas,
                   NuevaVenta(SiguienteId(ventas), fecha, productos[sel.producto],
                              vendedores[sel.vendedor], sel))
            /\ archivos' = abrir(archivos, archivo_ventas)
            /\ pc' = "ventas_abierto"
            /\ UNCHANGED <<productos, clientes, vendedores, sel, salida>>
       ELSE /\ Responder("registrar_venta", "venta_cancelada")
            /\ pc' = "menu"
            /\ sel' = SinSeleccion
            /\ UNCHANGED datos
    /\ UNCHANGED liberados

\* the ledger is written and ventas.json closed (104)
ConfirmarVentaEscribeVentas ==
    /\ pc = "ventas_abierto"
    /\ UNCHANGED otra
    /\ UNCHANGED pasos
    /\ archivos' = escribir(archivos, ventas, archivo_ventas)
    /\ pc' = "venta_guardando"
    /\ UNCHANGED <<productos, clientes, vendedores, ventas, sel, salida, liberados>>

\* the stock is decremented (412) and guardar_json has opened productos.json (103)
ConfirmarVentaAbreProductos ==
    /\ pc = "venta_guardando"
    /\ UNCHANGED otra
    /\ UNCHANGED pasos
    /\ productos' = [productos EXCEPT ![sel.producto].stock = @ - sel.cantidad]
    /\ archivos' = abrir(archivos, archivo_productos)
    /\ pc' = "productos_abierto"
    /\ UNCHANGED <<clientes, vendedores, ventas, sel, salida, liberados>>

\* the products are written, productos.json is closed (104) and the sale is
\* reported as registered (415)
ConfirmarVentaEscribeProductos ==
    /\ pc = "productos_abierto"
    /\ UNCHANGED otra
    /\ UNCHANGED pasos
    /\ archivos' = escribir(archivos, productos, archivo_productos)
    /\ Responder("registrar_venta", "venta_registrada")
    /\ pc' = "menu"
    /\ sel' = SinSeleccion
    /\ UNCHANGED <<productos, clientes, vendedores, ventas, liberados>>

\* the process that takes the next step changes: what was running waits in
\* otra with its memory, its prompt and its last message
CambiarInstancia ==
    /\ otra.pc # "apagado"
    /\ productos' = otra.productos
    /\ clientes' = otra.clientes
    /\ vendedores' = otra.vendedores
    /\ ventas' = otra.ventas
    /\ pc' = otra.pc
    /\ sel' = otra.sel
    /\ salida' = otra.salida
    /\ otra' = [productos |-> productos, clientes |-> clientes, vendedores |-> vendedores,
                ventas |-> ventas, pc |-> pc, sel |-> sel, salida |-> salida]
    /\ UNCHANGED <<archivos, liberados, pasos>>

\* both processes have loaded the same files and show the menu; in one of
\* the stores a stock has two digits, so that a sale changes the length of
\* the text of the products
InitDosInstancias ==
    /\ \E a \in (AlmacenesIniciales \ {AlmacenVacio})
                    \cup {[AlmacenCatalogo EXCEPT !.productos[1].stock = 10]} :
          /\ productos = a.productos
          /\ clientes = a.clientes
          /\ vendedores = a.vendedores
          /\ ventas = a.ventas
          /\ archivos = [f \in Archivos |->
                            IF f = archivo_productos THEN ArchivoJson(json_dump(a.productos))
                            ELSE IF f = archivo_clientes THEN ArchivoJson(json_dump(a.clientes))
                            ELSE IF f = archivo_vendedores
                            THEN ArchivoJson(json_dump(a.vendedores))
                            ELSE ArchivoJson(json_dump(a.ventas))]
          /\ otra = [productos |-> a.productos, clientes |-> a.clientes,
                     vendedores |-> a.vendedores, ventas |-> a.ventas, pc |-> "menu",
                     sel |-> SinSeleccion, salida |-> [op |-> "inicio", msg |-> ""]]
    /\ pc = "menu"
    /\ sel = SinSeleccion
    /\ salida = [op |-> "inicio", msg |-> ""]
    /\ liberados = [f \in Archivos |-> {}]
    /\ pasos = 0

NextDosInstancias ==
    \/ \E ep \in EntradasId, ec \in EntradasIdCliente, ev \in EntradasId : RegistrarVenta(ep, ec, ev)
    \/ \E e \in EntradasCantidad : IngresarCantidad(e)
    \/ \E c \in EntradasConfirmar, f \in Instantes : ConfirmarVentaAbreVentas(c, f)
    \/ ConfirmarVentaEscribeVentas
    \/ ConfirmarVentaAbreProductos
    \/ ConfirmarVentaEscribeProductos
    \/ CambiarInstancia

SpecDosInstancias == InitDosInstancias /\ [][NextDosInstancias]_vars

----------------------------------------------------------------------------
(* Properties *)

Ultima(s) == s[Len(s)]

SeAgregoVenta == Len(ventas') = Len(ventas) + 1

IdsDistintos(col) == \A i, j \in 1..Len(col) : col[i].id = col[j].id => i = j

\* C1: the sale a confirmed registrar_venta appends takes its unit price, unit
\* profit and commission percentage from the product and vendor as they were
\* when it was confirmed, and its subtotal, total profit, commission and total
\* follow from them: subtotal = unit price * quantity, profit = unit profit *
\* quantity, commission = profit * percentage / 100, total = subtotal.
C1_VentaCalculada ==
    [][SeAgregoVenta =>
        LET s == Ultima(ventas')
            p == productos[BuscarPorId(productos, s.producto_id)]
            v == vendedores[BuscarPorId(vendedores, s.vendedor_id)]
        IN /\ s.precio_unitario = p.precio_venta
           /\ s.beneficio_unitario = p.beneficio
           /\ s.porcentaje_comision = v.comision_beneficio
           /\ s.subtotal = s.precio_unitario * s.cantidad
           /\ s.beneficio_total = s.beneficio_unitario * s.cantidad
           /\ s.comision * 100 = s.beneficio_total * s.porcentaje_comision
           /\ s.total = s.subtotal]_vars

\* a sale of two units was just recorded on a product whose cost had been
\* edited to 2, at 50% commission
C1_Testigo ==
    /\ salida = [op |-> "registrar_venta", msg |-> "venta_registrada"]
    /\ Ultima(ventas).precio_unitario = 4
    /\ Ultima(ventas).cantidad = 2
    /\ Ultima(ventas).total = 8
    /\ Ultima(ventas).comision = 2

\* C2: a recorded sale of q units lowers the sold product's stock by exactly q
\* and changes nothing else in the catalogue; a quantity in range that exceeds
\* the stock is answered with the insufficient-stock message, and that answer
\* leaves the catalogue, the ledger and the files as they were.
C2_StockDescontado ==
    /\ [](pc = "venta_cantidad" =>
            \A e \in EntradasCantidad :
                (/\ EsDigitos(e)
                 /\ e.n >= CantidadMinima
                 /\ e.n <= CantidadMaxima
                 /\ e.n > productos[sel.producto].stock)
                => RevisionCantidad(e, productos[sel.producto].stock)
                       = "stock_insuficiente")
    /\ [][/\ SeAgregoVenta =>
               LET s == Ultima(ventas')
                   i == BuscarPorId(productos, s.producto_id)
               IN /\ i > 0
                  /\ Len(productos') = Len(productos)
                  /\ productos'[i].stock = productos[i].stock - s.cantidad
                  /\ productos'[i] = [productos[i] EXCEPT !.stock = productos'[i].stock]
                  /\ \A j \in 1..Len(productos) : j # i => productos'[j] = productos[j]
          /\ (pc = "venta_cantidad" /\ salida'.msg = "stock_insuficiente")
               => UNCHANGED <<datos, pc, sel>>]_vars

\* a sale recorded earlier left one unit of a product, the other product is
\* untouched, and a request for two units has just been refused
C2_Testigo ==
    /\ salida = [op |-> "registrar_venta", msg |-> "stock_insuficiente"]
    /\ pc = "venta_cantidad"
    /\ pasos = MaxPasos
    /\ Len(ventas) = 1
    /\ Len(productos) = 2
    /\ productos[sel.producto].id = ventas[1].producto_id
    /\ productos[sel.producto].stock = MaxStock - ventas[1].cantidad
    /\ \E j \in 1..2 : j # sel.producto /\ productos[j].stock = MaxStock

\* the sales that name id in the given field
VentasDe(campo, id) == {k \in 1..Len(ventas) : ventas[k][campo] = id}

\* col without the record whose id is id, the others in their order
SinRegistro(col, id) == SelectSeq(col, LAMBDA r : r.id # id)

\* the step took out of col the one record with this id, which no sale names
QuitaElPedido(col, campo, id) ==
    /\ id \in Ids(col)
    /\ VentasDe(campo, id) = {}
    /\ col' = SinRegistro(col, id)
    /\ Len(col') = Len(col) - 1

Persisten(col, campo) ==
    \A i \in 1..Len(col) : VentasDe(campo, col[i].id) # {} => col[i].id \in Ids(col')

\* C3: a product, client or vendor that a sale refers to is never removed, and
\* the refusal leaves every collection and file as it was; a deletion that
\* succeeds removes exactly the record whose id was asked for, which no sale
\* refers to, and an existing record that no sale refers to is deleted whenever
\* its id is asked for and the question is answered s.
C3_EliminacionProtegida ==
    /\ []((pc = "menu" /\ pasos < MaxPasos) =>
            /\ \A i \in 1..Len(productos) :
                   VentasDe("producto_id", productos[i].id) = {} =>
                       ENABLED (/\ EliminarProducto(Num(productos[i].id), "s")
                                /\ salida'.msg = "producto_eliminado")
            /\ \A i \in 1..Len(clientes) :
                   VentasDe("cliente_id", clientes[i].id) = {} =>
                       ENABLED (/\ EliminarCliente(Num(clientes[i].id), "s")
                                /\ salida'.msg = "cliente_eliminado")
            /\ \A i \in 1..Len(vendedores) :
                   VentasDe("vendedor_id", vendedores[i].id) = {} =>
                       ENABLED (/\ EliminarVendedor(Num(vendedores[i].id), "s")
                                /\ salida'.msg = "vendedor_eliminado"))
    /\ [][/\ pc' # "apagado" =>
                 /\ Persisten(productos, "producto_id")
                 /\ Persisten(clientes, "cliente_id")
                 /\ Persisten(vendedores, "vendedor_id")
          /\ salida'.msg = "tiene_ventas_asociadas" => UNCHANGED datos
          /\ \A id \in 1..MaxId : \A conf \in EntradasConfirmar :
                 /\ (EliminarProducto(Num(id), conf) /\ salida'.msg = "producto_eliminado") =>
                        /\ QuitaElPedido(productos, "producto_id", id)
                        /\ UNCHANGED <<clientes, vendedores, ventas>>
                 /\ (EliminarCliente(Num(id), conf) /\ salida'.msg = "cliente_eliminado") =>
                        /\ QuitaElPedido(clientes, "cliente_id", id)
                        /\ UNCHANGED <<productos, vendedores, ventas>>
                 /\ (EliminarVendedor(Num(id), conf) /\ salida'.msg = "vendedor_eliminado") =>
                        /\ QuitaElPedido(vendedores, "vendedor_id", id)
                        /\ UNCHANGED <<productos, clientes, ventas>>
          /\ salida'.msg \in {"producto_eliminado", "cliente_eliminado", "vendedor_eliminado"} =>
                 \E id \in 1..MaxId : \E conf \in EntradasConfirmar :
                     \/ EliminarProducto(Num(id), conf)
                     \/ EliminarCliente(Num(id), conf)
                     \/ EliminarVendedor(Num(id), conf)]_vars

\* C3 without the state in which the catalogue cannot be listed: there the
\* statement holds, so the listing of line 1106 is all that breaks it
C3_ConCatalogoListable ==
    /\ []((pc = "menu" /\ pasos < MaxPasos /\ ErrorDeListado(productos) = "ninguno") =>
            \A i \in 1..Len(productos) :
                VentasDe("producto_id", productos[i].id) = {} =>
                    ENABLED (/\ EliminarProducto(Num(productos[i].id), "s")
                             /\ salida'.msg = "producto_eliminado"
                             /\ QuitaElPedido(productos, "producto_id", productos[i].id)))

\* C4: an id freed by deleting a product, client or vendor is never given to
\* another record of the same collection.
C4_IdNuncaReasignado ==
    /\ Ids(productos) \cap liberados[archivo_productos] = {}
    /\ Ids(clientes) \cap liberados[archivo_clientes] = {}
    /\ Ids(vendedores) \cap liberados[archivo_vendedores] = {}

\* C5: in each of the four collections no two records share an id, also after
\* the record with the highest id was deleted and a new one was added.
C5_IdsUnicos ==
    /\ IdsDistintos(productos)
    /\ IdsDistintos(clientes)
    /\ IdsDistintos(vendedores)
    /\ IdsDistintos(ventas)

\* the product with the highest id was deleted and a product was added after it
C5_Testigo ==
    /\ salida = [op |-> "agregar_producto", msg |-> "producto_agregado"]
    /\ liberados[archivo_productos] = {MaxId}
    /\ Len(productos) = MaxId
    /\ Ids(productos) = 1..MaxId

\* C6: no step changes or removes a recorded sale; the ledger only grows, and
\* only at its end, whatever is edited or deleted afterwards, and a step that
\* ends the process leaves the file of the ledger as it was.
C6_VentasInmutables ==
    [][IF pc' = "apagado"
       THEN archivos'[archivo_ventas] = archivos[archivo_ventas]
       ELSE /\ Len(ventas') >= Len(ventas)
            /\ Len(ventas') <= Len(ventas) + 1
            /\ \A k \in 1..Len(ventas) : ventas'[k] = ventas[k]]_vars

\* the product of a recorded sale was renamed after the sale, and the sale
\* still carries the name it was made with
C6_Testigo ==
    /\ salida = [op |-> "editar_producto", msg |-> "producto_actualizado"]
    /\ Len(ventas) = 1
    /\ LET p == productos[BuscarPorId(productos, ventas[1].producto_id)]
       IN /\ p.nombre = "b"
          /\ ventas[1].producto_nombre = "a"
          /\ cargar_json(archivos, archivo_productos) = productos
          /\ cargar_json(archivos, archivo_ventas) = ventas

\* C7: every product's sale price is its purchase price plus its profit, in
\* every state, also after editar_producto was given a valid new purchase price
\* followed by a profit that is not a number.
C7_PrecioVentaDerivado ==
    \A i \in 1..Len(productos) :
        /\ productos[i].precio_venta # NaN
        /\ productos[i].precio_venta = Suma(productos[i].precio_compra, productos[i].beneficio)

\* C8: whenever the program is at the main menu, each of the four files holds
\* exactly what the program holds in memory for that collection.
C8_ArchivosAlDia ==
    pc = "menu" =>
        /\ cargar_json(archivos, archivo_productos) = productos
        /\ cargar_json(archivos, archivo_clientes) = clientes
        /\ cargar_json(archivos, archivo_vendedores) = vendedores
        /\ cargar_json(archivos, archivo_ventas) = ventas

\* C9: answering the confirmation of registrar_venta with anything but s ends
\* it with the cancelled message and changes neither the ledger, nor any stock,
\* nor any collection or file, so the next sale id is the one it was.
C9_CancelarNoCambia ==
    /\ [](pc = "venta_confirmar" =>
            \A c \in EntradasConfirmar : \A f \in Instantes :
                Minusculas(c) # "s" =>
                    ENABLED (/\ ConfirmarVenta(c, f)
                             /\ salida'.msg = "venta_cancelada"))
    /\ [][salida'.msg = "venta_cancelada" =>
            /\ UNCHANGED datos
            /\ SiguienteId(ventas') = SiguienteId(ventas)
            /\ pc = "venta_confirmar"
            /\ pc' = "menu"]_vars

\* a sale was prepared up to the confirmation and declined there, after an
\* earlier sale had been recorded
C9_Testigo ==
    /\ salida = [op |-> "registrar_venta", msg |-> "venta_cancelada"]
    /\ pc = "menu"
    /\ Len(ventas) = 1
    /\ cargar_json(archivos, archivo_ventas) = ventas
    /\ cargar_json(archivos, archivo_productos) = productos

MensajesProducto == {"sin_productos", "id_producto_no_numerico", "producto_no_encontrado"}
MensajesCliente == {"id_cliente_no_numerico", "cliente_no_encontrado"}
MensajesVendedor == {"sin_vendedores", "id_vendedor_no_numerico", "vendedor_no_encontrado"}

\* C10: registrar_venta checks the product, then the client, then the vendor,
\* and only then asks the quantity: a product id that is not a number or names
\* no product ends it with a product message whatever the other answers are, a
\* client id other than 0 that is not a number or names no client ends it with
\* a client message when the product was good, a bad vendor id ends it with a
\* vendor message when both were good, and each of these endings returns to the
\* menu with nothing changed.  The ids are asked once the product list has
\* been shown.
C10_ValidacionEnOrden ==
    /\ []((pc = "menu" /\ ErrorDeListado(productos) = "ninguno") =>
          \A ep \in EntradasId : \A ec \in EntradasIdCliente : \A ev \in EntradasId :
            LET r == SeleccionVenta(ep, ec, ev)
                productoMal == ~EsNumero(ep) \/ ep.n \notin Ids(productos)
                clienteMal == /\ Len(clientes) > 0
                              /\ ec # Num(0)
                              /\ (~EsNumero(ec) \/ ec.n \notin Ids(clientes))
                vendedorMal == ~EsNumero(ev) \/ ev.n \notin Ids(vendedores)
            IN /\ productoMal => (~r.ok /\ r.msg \in MensajesProducto)
               /\ (~productoMal /\ clienteMal) => (~r.ok /\ r.msg \in MensajesCliente)
               /\ (~productoMal /\ ~clienteMal /\ vendedorMal)
                      => (~r.ok /\ r.msg \in MensajesVendedor)
               /\ (~productoMal /\ ~clienteMal /\ ~vendedorMal)
                      => (r.ok /\ r.msg = "solicita_cantidad"))
    /\ [][/\ (salida'.op = "registrar_venta"
              /\ salida'.msg \in MensajesProducto \cup MensajesCliente \cup MensajesVendedor)
             => (pc = "menu" /\ pc' = "menu" /\ UNCHANGED datos)
          /\ (pc = "menu" /\ pc' = "venta_cantidad")
             => (/\ UNCHANGED datos
                 /\ sel'.producto \in 1..Len(productos)
                 /\ sel'.vendedor \in 1..Len(vendedores)
                 /\ sel'.cliente_id \in Ids(clientes) \cup {0})
          /\ pc' = "venta_confirmar" => pc = "venta_cantidad"]_vars

\* a sale was started with a good product id and a client id that names no
\* client, and the program is back at the menu
C10_Testigo ==
    /\ salida = [op |-> "registrar_venta", msg |-> "cliente_no_encontrado"]
    /\ pc = "menu"
    /\ Len(productos) > 0
    /\ Len(clientes) > 0
    /\ sel = SinSeleccion

\* the collection the program holds in memory for a file
Coleccion(f) ==
    IF f = archivo_productos THEN productos
    ELSE IF f = archivo_clientes THEN clientes
    ELSE IF f = archivo_vendedores THEN vendedores
    ELSE ventas

\* C18: every sale registrar_venta appends has a quantity from 1 to 999 that
\* was at most the stock its product had in the state just before the append.
C18_CantidadEnRango ==
    [][SeAgregoVenta =>
        LET s == Ultima(ventas')
            i == BuscarPorId(productos, s.producto_id)
        IN /\ s.cantidad >= 1
           /\ s.cantidad <= 999
           /\ i > 0
           /\ s.cantidad <= productos[i].stock]_vars

\* a sale of the whole stock of a product was just recorded
C18_Testigo ==
    /\ salida = [op |-> "registrar_venta", msg |-> "venta_registrada"]
    /\ Ultima(ventas).cantidad = MaxStock
    /\ productos[BuscarPorId(productos, Ultima(ventas).producto_id)].stock = 0

\* C19: every product's stock is an integer from 0 to 999 in every state the
\* program reaches from stores whose stocks are in that range, whatever adds,
\* edits, mass cost updates and sales are made.
C19_StockEnRango ==
    \A i \in 1..Len(productos) :
        productos[i].stock >= 0 /\ productos[i].stock <= 999

\* two sales in a row of the same product took its stock down to zero
C19_Testigo ==
    /\ salida = [op |-> "registrar_venta", msg |-> "venta_registrada"]
    /\ pasos = 2
    /\ Len(ventas) = 2
    /\ ventas[1].producto_id = ventas[2].producto_id
    /\ ventas[1].cantidad + ventas[2].cantidad = MaxStock
    /\ productos[BuscarPorId(productos, ventas[2].producto_id)].stock = 0

\* a == b of two lists of dicts that are different objects, as the list
\* json.load builds and the list that was saved: the same number of dicts, the
\* same keys in the same order, and every value equal to its counterpart.  A
\* float nan is equal to no float, another nan included.
ListasIguales(a, b) ==
    /\ Len(a) = Len(b)
    /\ \A i \in 1..Len(a) :
           /\ Claves(a[i]) = Claves(b[i])
           /\ \A k \in Campos(a[i]) :
                  /\ a[i][k] = b[i][k]
                  /\ k \notin ClavesDeTexto => a[i][k] # NaN

\* C20: saving any of the four collections with guardar_json and loading the
\* file with cargar_json gives back the same records, in the same order, with
\* the same keys and values, also when the collection is empty.
C20_IdaYVuelta ==
    \A f \in Archivos :
        ListasIguales(cargar_json(guardar_json(archivos, Coleccion(f), f), f), Coleccion(f))

\* C20 of the collections that hold no nan, the empty one included: what
\* breaks the round trip is the nan alone
C20_IdaYVueltaSinNaN ==
    \A f \in Archivos :
        (\A i \in 1..Len(Coleccion(f)) : \A k \in Campos(Coleccion(f)[i]) :
             k \notin ClavesDeTexto => Coleccion(f)[i][k] # NaN) =>
            /\ ListasIguales(cargar_json(guardar_json(archivos, Coleccion(f), f), f), Coleccion(f))
            /\ cargar_json(guardar_json(archivos, Coleccion(f), f), f) = Coleccion(f)

\* the day number of the Sunday on or before day n (day 0 is a Monday)
DomingoDe(n) == CHOOSE d \in (n - 6)..n : d % 7 = 6

\* the elements of vs at the positions in S, in the order of vs
EnOrden(vs, S) ==
    [k \in 1..Cardinality(S) |->
        vs[CHOOSE i \in S : Cardinality({j \in S : j < i}) = k - 1]]

BordesDeSemana ==
    /\ salida.inicio = [dia |-> salida.ahora.dia - ((weekday(salida.ahora) + 1) % 7),
                        seg |-> 0, micro |-> 0]
    /\ salida.inicio.dia % 7 = 6
    /\ salida.fin = [dia |-> salida.inicio.dia + 6, seg |-> 23 * 3600 + 59 * 60 + 59,
                     micro |-> 0]
    /\ salida.fin.dia % 7 = 5
    /\ NoPosterior(salida.inicio, salida.ahora)

\* C11 as claimed: for every instant now the week of the weekly report starts
\* on the Sunday 00:00:00 found by going back (weekday + 1) mod 7 days, ends on
\* the Saturday 6 days 23:59:59 later, and start <= now <= end.
C11_AhoraEnSemana ==
    salida.op = "reporte_ventas_periodo" =>
        BordesDeSemana /\ NoPosterior(salida.ahora, salida.fin)

\* C11 as amended: the week starts on the Sunday 00:00:00 found by going back
\* (weekday + 1) mod 7 days, ends on the Saturday 6 days 23:59:59 later,
\* start <= now, and now cut to whole seconds is <= end.
C11_SegundoEnSemana ==
    salida.op = "reporte_ventas_periodo" =>
        BordesDeSemana /\ NoPosterior([salida.ahora EXCEPT !.micro = 0], salida.fin)

\* the weekly report was asked half a second before the end of a Saturday
C11_Testigo ==
    /\ salida.op = "reporte_ventas_periodo"
    /\ salida.ahora = Momento(2024, 6, 15, SegundosPorDia - 1, 500000)
    /\ strftime(salida.inicio) = <<2024, 6, 9, 0, 0, 0>>
    /\ strftime(salida.fin) = <<2024, 6, 15, 23, 59, 59>>

\* C12: the weekly report takes exactly the sales whose date parses and lies
\* between the start and the end of the week, both included, in the order of
\* the ledger; a sale whose date does not parse is left out and the others are
\* taken as without it.
C12_VentasDeLaSemana ==
    salida.op = "reporte_ventas_periodo" =>
        salida.ventas =
            EnOrden(ventas,
                    {i \in 1..Len(ventas) :
                        /\ FechaValida(ventas[i].fecha)
                        /\ ~Anterior(strptime(ventas[i].fecha), salida.inicio)
                        /\ ~Anterior(salida.fin, strptime(ventas[i].fecha))})

\* a ledger of a sale whose date does not parse and a sale made in the last
\* second of the week: the report has the second one alone
C12_Testigo ==
    /\ salida.op = "reporte_ventas_periodo"
    /\ Len(ventas) = 2
    /\ ~FechaValida(ventas[1].fecha)
    /\ FechaValida(ventas[2].fecha)
    /\ strptime(ventas[2].fecha) = salida.fin
    /\ salida.ventas = <<ventas[2]>>

\* the positions of the sales with a date that parses, made before the week of
\* now, in the week that starts on day d
PasadasDe(ahora, d) ==
    {i \in 1..Len(ventas) :
        /\ FechaValida(ventas[i].fecha)
        /\ strptime(ventas[i].fecha).dia < DomingoDe(ahora.dia)
        /\ DomingoDe(strptime(ventas[i].fecha).dia) = d}

\* the day number of a date written day/month/year
DiaDeTexto(f) == strptime(<<f[3], f[2], f[1], 0, 0, 0>>).dia

\* C13: the list of past weeks has one entry for each Sunday-started week
\* before the current one in which a sale with a date that parses was made,
\* the latest week first; no entry is empty, none is the current week, and each
\* holds the sales of its week in ledger order, so a sale of the Saturday
\* before the current week is listed and a sale of its first Sunday is not.
C13_SemanasPasadas ==
    salida.op = "menu_ventas_semanas_pasadas" =>
        LET s == salida.semanas
            actual == DomingoDe(salida.ahora.dia)
            inicios == {DomingoDe(strptime(ventas[i].fecha).dia) :
                           i \in {j \in 1..Len(ventas) :
                                     /\ FechaValida(ventas[j].fecha)
                                     /\ strptime(ventas[j].fecha).dia < actual}}
        IN /\ Len(s) = Cardinality(inicios)
           /\ \A k \in 1..Len(s) :
                 /\ DiaDeTexto(s[k].rango[1]) \in inicios
                 /\ DiaDeTexto(s[k].rango[2]) = DiaDeTexto(s[k].rango[1]) + 6
                 /\ s[k].ventas # <<>>
                 /\ s[k].ventas = EnOrden(ventas, PasadasDe(salida.ahora, DiaDeTexto(s[k].rango[1])))
           /\ \A k \in 1..(Len(s) - 1) :
                 DiaDeTexto(s[k].rango[1]) > DiaDeTexto(s[k + 1].rango[1])

\* as of Monday 2024-06-10, with a sale of Saturday 2024-06-08 and a sale of
\* Sunday 2024-06-09: one past week, holding the first sale alone
C13_Testigo ==
    /\ salida.op = "menu_ventas_semanas_pasadas"
    /\ strftime_dia(salida.ahora) = <<2024, 6, 10>>
    /\ Len(ventas) = 2
    /\ SubSeq(ventas[1].fecha, 1, 3) = <<2024, 6, 8>>
    /\ SubSeq(ventas[2].fecha, 1, 3) = <<2024, 6, 9>>
    /\ Len(salida.semanas) = 1
    /\ salida.semanas[1].rango = <<(<<2, 6, 2024>>), (<<8, 6, 2024>>)>>
    /\ salida.semanas[1].ventas = <<ventas[1]>>

\* the sum of a field over the sales of vs at the positions in S
RECURSIVE SumaSobre(_, _, _)
SumaSobre(vs, campo, S) ==
    IF S = {} THEN 0
    ELSE LET i == CHOOSE j \in S : TRUE
         IN vs[i][campo] + SumaSobre(vs, campo, S \ {i})

\* C14: the revenue, profit and commission totals a report shows for a set of
\* sales are the sums of total, beneficio_total and comision over that set,
\* and all three are zero for the empty set.
C14_TotalesSonSumas ==
    /\ Totales(SubSeq(ventas, 1, 0)) = [ingresos |-> 0, beneficios |-> 0, comisiones |-> 0]
    /\ (/\ salida.op \in {"listar_ventas", "reporte_ventas_periodo",
                         "menu_ventas_semanas_pasadas"}
        /\ salida.msg = "totales") =>
          LET vs == salida.ventas
          IN /\ salida.totales.ingresos = SumaSobre(vs, "total", 1..Len(vs))
             /\ salida.totales.beneficios = SumaSobre(vs, "beneficio_total", 1..Len(vs))
             /\ salida.totales.comisiones = SumaSobre(vs, "comision", 1..Len(vs))

\* the report of a week with two sales of different totals was shown with
\* its totals
C14_Testigo ==
    /\ salida.op = "reporte_ventas_periodo"
    /\ salida.msg = "totales"
    /\ Len(salida.ventas) = 2
    /\ salida.ventas[1].total # salida.ventas[2].total
    /\ salida.totales.ingresos = salida.ventas[1].total + salida.ventas[2].total
    /\ salida.totales.beneficios
           = salida.ventas[1].beneficio_total + salida.ventas[2].beneficio_total
    /\ salida.totales.comisiones = salida.ventas[1].comision + salida.ventas[2].comision
    /\ salida.totales.beneficios # salida.totales.comisiones

\* the pairs <<vs[i][id], vs[i][nombre]>> of the sales of vs
Pares(vs, id, nombre) == {<<vs[i][id], vs[i][nombre]>> : i \in 1..Len(vs)}

\* the positions in vs of the sales of a pair, and the first of them
VentasDelPar(vs, id, nombre, par) ==
    {i \in 1..Len(vs) : <<vs[i][id], vs[i][nombre]>> = par}

PrimeraVez(vs, id, nombre, par) ==
    CHOOSE i \in VentasDelPar(vs, id, nombre, par) :
        \A j \in VentasDelPar(vs, id, nombre, par) : i <= j

\* d has one item for each pair of vs, its value the sum of the field over
\* the sales of the pair
SumasPorPar(d, vs, id, nombre, valor) ==
    /\ \A k \in 1..Len(d) :
          /\ d[k][1] \in Pares(vs, id, nombre)
          /\ d[k][2] = SumaSobre(vs, valor, VentasDelPar(vs, id, nombre, d[k][1]))
    /\ \A k, l \in 1..Len(d) : d[k][1] = d[l][1] => k = l

\* item a goes before pair b of sum sb: a larger sum, or the same sum and an
\* earlier first sale
VaAntes(vs, id, nombre, a, b, sb) ==
    \/ a[2] > sb
    \/ a[2] = sb /\ PrimeraVez(vs, id, nombre, a[1]) < PrimeraVez(vs, id, nombre, b)

\* t is the ranking of the pairs of vs by the sum of a field, cut to n
EsRanking(t, vs, id, nombre, valor, n) ==
    /\ Len(t) = IF Cardinality(Pares(vs, id, nombre)) < n
                THEN Cardinality(Pares(vs, id, nombre)) ELSE n
    /\ SumasPorPar(t, vs, id, nombre, valor)
    /\ \A k \in 1..(Len(t) - 1) : VaAntes(vs, id, nombre, t[k], t[k + 1][1], t[k + 1][2])
    /\ \A par \in Pares(vs, id, nombre) \ {t[k][1] : k \in 1..Len(t)} :
          \A k \in 1..Len(t) :
              VaAntes(vs, id, nombre, t[k], par,
                      SumaSobre(vs, valor, VentasDelPar(vs, id, nombre, par)))

\* C15: the client ranking has one entry for each pair of client id and client
\* name found in the sales, with the sum of total over the pair's sales, the
\* larger sum first and, among equal sums, the pair sold to first; it is cut to
\* the first 5.
C15_TopClientes ==
    /\ (salida.op = "reporte_top_clientes_productos" /\ salida.msg = "top") =>
          EsRanking(salida.top_clientes, ventas, "cliente_id", "cliente_nombre", "total", 5)
    /\ Primeros(OrdenarPorValor(<<(<<(<<2, "b">>), 300>>), (<<(<<1, "a">>), 300>>),
                                  (<<(<<3, "c">>), 100>>)>>), 2)
           = <<(<<(<<2, "b">>), 300>>), (<<(<<1, "a">>), 300>>)>>

\* six clients, the first two of them tied on the largest sum and the last two
\* on the smallest: five are listed, the tied ones in ledger order
C15_Testigo ==
    /\ salida.op = "reporte_top_clientes_productos"
    /\ Len(ventas) = 6
    /\ Len(salida.top_clientes) = 5
    /\ salida.top_clientes[1] = <<(<<1, "a">>), 9>>
    /\ salida.top_clientes[2] = <<(<<2, "a">>), 9>>
    /\ salida.top_clientes[5] = <<(<<5, "a">>), 3>>
    /\ ventas[6].total = 3

\* C16: the product ranking has one entry for each pair of product id and
\* product name found in the sales, with the sum of cantidad over the pair's
\* sales, the larger sum first and equal sums in order of first sale, cut to
\* the first 5; before the cut the sums add up to all the units sold.
C16_TopProductos ==
    (salida.op = "reporte_top_clientes_productos" /\ salida.msg = "top") =>
        /\ EsRanking(salida.top_productos, ventas, "producto_id", "producto_nombre",
                     "cantidad", 5)
        /\ SumarValores(SumarPor(ventas, "producto_id", "producto_nombre", "cantidad"))
               = SumaSobre(ventas, "cantidad", 1..Len(ventas))
        /\ Cardinality(Pares(ventas, "producto_id", "producto_nombre")) <= 5 =>
               SumarValores(salida.top_productos)
                   = SumaSobre(ventas, "cantidad", 1..Len(ventas))

\* two sales of one product id under two names: two entries, the one with
\* more units first although it was sold later
C16_Testigo ==
    /\ salida.op = "reporte_top_clientes_productos"
    /\ Len(ventas) = 2
    /\ ventas[1].producto_id = ventas[2].producto_id
    /\ ventas[1].producto_nombre # ventas[2].producto_nombre
    /\ ventas[1].cantidad < ventas[2].cantidad
    /\ Len(salida.top_productos) = 2
    /\ salida.top_productos[1][1] = <<ventas[2].producto_id, ventas[2].producto_nombre>>

\* C17: the payout report has one entry for each pair of vendor id and vendor
\* name found in the sales of the current week, with the sum of comision over
\* the pair's sales, in the order in which the pairs first appear and not by
\* amount; its grand total is the sum of comision over those sales.
C17_PagoVendedores ==
    salida.op = "reporte_pago_vendedores" =>
        LET vs == salida.ventas
            d == salida.pagos
        IN /\ Len(d) = Cardinality(Pares(vs, "vendedor_id", "vendedor_nombre"))
           /\ SumasPorPar(d, vs, "vendedor_id", "vendedor_nombre", "comision")
           /\ \A k \in 1..(Len(d) - 1) :
                 PrimeraVez(vs, "vendedor_id", "vendedor_nombre", d[k][1])
                     < PrimeraVez(vs, "vendedor_id", "vendedor_nombre", d[k + 1][1])
           /\ salida.msg = "pagos" => salida.total = SumaSobre(vs, "comision", 1..Len(vs))

\* two vendors sold in the current week, the one who sold first earning less:
\* it is listed first all the same
C17_Testigo ==
    /\ salida.op = "reporte_pago_vendedores"
    /\ salida.msg = "pagos"
    /\ Len(salida.ventas) = 2
    /\ Len(salida.pagos) = 2
    /\ salida.pagos[1][1] = <<salida.ventas[1].vendedor_id, salida.ventas[1].vendedor_nombre>>
    /\ salida.pagos[1][2] < salida.pagos[2][2]
    /\ salida.total = salida.pagos[1][2] + salida.pagos[2][2]

\* C21: an edit of a product or vendor in which a numeric field (purchase
\* price, profit, commission) is answered with a text that is no number is
\* rejected and leaves the collection in memory and its file as they were
\* before the edit began, the name typed earlier in the edit included.
C21_EdicionRechazadaSinCambio ==
    [][(/\ pasos' = pasos + 1
        /\ \/ salida' = [op |-> "editar_producto", msg |-> "valores_no_numericos"]
           \/ salida' = [op |-> "editar_vendedor", msg |-> "comision_no_numerica"])
       => /\ productos' = productos
          /\ vendedores' = vendedores
          /\ archivos' = archivos]_vars

\* C23: a new sale gets the highest id of the ledger plus one, or 1 when the
\* ledger is empty; so the ids of the ledger are distinct and grow in append
\* order, and in a ledger that began empty the k-th sale has id k.
C23_IdsDeVentaCrecientes ==
    /\ [](/\ \A i, j \in 1..Len(ventas) : i < j => ventas[i].id < ventas[j].id
          /\ \A k \in 1..Len(ventas) : ventas[k].id = k)
    /\ [][SeAgregoVenta =>
            /\ Len(ventas) = 0 => Ultima(ventas').id = 1
            /\ Len(ventas) > 0 =>
                  /\ \E k \in 1..Len(ventas) : Ultima(ventas').id = ventas[k].id + 1
                  /\ \A k \in 1..Len(ventas) : Ultima(ventas').id > ventas[k].id]_vars

\* two sales were recorded one after the other into a ledger that was empty
C23_Testigo ==
    /\ salida = [op |-> "registrar_venta", msg |-> "venta_registrada"]
    /\ pasos = 2
    /\ Len(ventas) = 2
    /\ ventas[1].id = 1
    /\ ventas[2].id = 2
    /\ ventas[1].fecha \in Instantes

\* C25: every sale names a product that is in the product collection and a
\* vendor that is in the vendor collection, and its client is either id 0 with
\* the name "Cliente General" or a client that is in the client collection,
\* whatever was added, edited or deleted since the sale.
C25_ReferenciasVigentes ==
    \A k \in 1..Len(ventas) :
        /\ \E i \in 1..Len(productos) : productos[i].id = ventas[k].producto_id
        /\ \E i \in 1..Len(vendedores) : vendedores[i].id = ventas[k].vendedor_id
        /\ \/ ventas[k].cliente_id = 0 /\ ventas[k].cliente_nombre = "Cliente General"
           \/ \E i \in 1..Len(clientes) : clientes[i].id = ventas[k].cliente_id

\* after a sale to a client, the deletion of that client was asked for and
\* refused
C25_Testigo ==
    /\ salida = [op |-> "eliminar_cliente", msg |-> "tiene_ventas_asociadas"]
    /\ Len(ventas) = 1
    /\ ventas[1].cliente_id = 1
    /\ BuscarPorId(clientes, 1) > 0

\* the units the ledger vs holds as sold of the product id
Vendidas(vs, id) == SumaSobre(vs, "cantidad", {k \in 1..Len(vs) : vs[k].producto_id = id})

\* C26: a product's stock is its stock at creation less the units the ledger
\* holds as sold of its id, as long as its stock is not edited: a product is
\* created with no sale of its id in the ledger, also when the id was held by
\* a deleted product before, and every step other than an edit of products
\* keeps stock plus units sold of every product the same.
C26_StockMasVendidas ==
    [][\A i \in 1..Len(productos') :
          LET id == productos'[i].id
              antes == {j \in 1..Len(productos) : productos[j].id = id}
          IN /\ antes = {} => Vendidas(ventas', id) = 0
             /\ ~(salida'.op = "editar_producto" /\ pasos' = pasos + 1) =>
                   \A j \in antes :
                       productos'[i].stock + Vendidas(ventas', id)
                           = productos[j].stock + Vendidas(ventas, id)]_vars

\* next to a product of which a unit was sold, a product was added under the
\* id of a deleted one: it has its whole stock and no sale
C26_Testigo ==
    /\ salida = [op |-> "agregar_producto", msg |-> "producto_agregado"]
    /\ Ultima(productos).id \in liberados[archivo_productos]
    /\ Ultima(productos).stock = MaxStock
    /\ Vendidas(ventas, Ultima(productos).id) = 0
    /\ Len(ventas) = 1
    /\ productos[1].stock + Vendidas(ventas, productos[1].id) = MaxStock
    /\ Vendidas(ventas, productos[1].id) = 1

\* the positions at which the sale v stands in the sequence vs
Apariciones(vs, v) == {n \in 1..Len(vs) : vs[n] = v}

\* C27: for one and the same now, no sale is both in the result of the current
\* week and in a bucket of a past week; every sale with a date that parses and
\* lies before the start of the current week is in exactly one bucket, once,
\* and its date lies between the first second of the bucket's first day and
\* the last second of its last day; a sale dated after the end of the current
\* week is in neither.
C27_SemanasSeparadas ==
    salida.op = "menu_ventas_semanas_pasadas" =>
        LET s == salida.semanas
            actual == obtener_ventas_semanales(salida.ahora)
        IN \A i \in 1..Len(ventas) :
              LET cubos == {k \in 1..Len(s) : Apariciones(s[k].ventas, ventas[i]) # {}}
                  enActual == Apariciones(actual.ventas, ventas[i]) # {}
                  f == ventas[i].fecha
              IN /\ ~(enActual /\ cubos # {})
                 /\ (FechaValida(f) /\ Anterior(strptime(f), actual.inicio)) =>
                       /\ Cardinality(cubos) = 1
                       /\ \A k \in cubos :
                             /\ Cardinality(Apariciones(s[k].ventas, ventas[i])) = 1
                             /\ DiaDeTexto(s[k].rango[1]) <= strptime(f).dia
                             /\ strptime(f).dia <= DiaDeTexto(s[k].rango[2])
                             /\ DiaDeTexto(s[k].rango[2]) < actual.inicio.dia
                 /\ (FechaValida(f) /\ Anterior(actual.fin, strptime(f))) =>
                       ~enActual /\ cubos = {}

\* as of Saturday 2024-06-08, with a sale of 2023 and a sale of the Sunday
\* after: the first is in the one past week, the second in no week
C27_Testigo ==
    /\ salida.op = "menu_ventas_semanas_pasadas"
    /\ strftime_dia(salida.ahora) = <<2024, 6, 8>>
    /\ Len(ventas) = 2
    /\ ventas[1].fecha = <<2023, 12, 31, 0, 0, 0>>
    /\ ventas[2].fecha = <<2024, 6, 9, 0, 0, 0>>
    /\ Len(salida.semanas) = 1
    /\ salida.semanas[1].ventas = <<ventas[1]>>
    /\ obtener_ventas_semanales(salida.ahora).ventas = <<>>

\* C24: a record-sale interaction whose quantity prompt is answered with whole
\* numbers from 1 to 999 comes back to the menu, whatever product was chosen,
\* one without stock included: the prompt, which such an answer leaves only
\* when it is accepted, accepts some quantity from 1 to 999, and the
\* interaction ends at the menu.
C24_VentaVuelveAlMenu ==
    /\ [](pc = "venta_cantidad" =>
            ENABLED (\E q \in CantidadMinima..CantidadMaxima :
                        IngresarCantidad(Num(q)) /\ pc' = "venta_confirmar"))
    /\ (pc # "menu") ~> (pc = "menu")

\* C28: the migration cargar_datos runs on the clients it loaded renames
\* 'email' to 'dni' in every client that has 'email' and no 'dni', leaves every
\* client with a 'dni' and a 'telefono' ("" when the file had none), changes
\* no other field, and on clients that already have both keys it changes
\* nothing and saves nothing.
C28_MigracionDeClientes ==
    [][(pc = "apagado" /\ pc' = "menu") =>
          LET viejos == cargar_json(archivos, archivo_clientes)
              PorRenombrar(v) == "email" \in Campos(v) /\ "dni" \notin Campos(v)
              Migrado(v) == {"dni", "telefono"} \subseteq Campos(v)
          IN /\ Len(clientes') = Len(viejos)
             /\ \A i \in 1..Len(viejos) :
                   LET v == viejos[i]
                       n == clientes'[i]
                   IN /\ {"dni", "telefono"} \subseteq Campos(n)
                      /\ Campos(n) \subseteq Campos(v) \cup {"dni", "telefono"}
                      /\ PorRenombrar(v) => n["dni"] = v["email"] /\ "email" \notin Campos(n)
                      /\ ~PorRenombrar(v) /\ "dni" \notin Campos(v) => n["dni"] = ""
                      /\ "telefono" \notin Campos(v) => n["telefono"] = ""
                      /\ \A k \in Campos(v) :
                            ~(k = "email" /\ PorRenombrar(v)) => k \in Campos(n) /\ n[k] = v[k]
             /\ (archivos[archivo_clientes].estado = "json"
                     /\ \A i \in 1..Len(viejos) : Migrado(viejos[i])) =>
                   /\ clientes' = viejos
                   /\ archivos'[archivo_clientes] = archivos[archivo_clientes]
             /\ archivos[archivo_clientes].estado = "json"
                   /\ archivos'[archivo_clientes] # archivos[archivo_clientes]
                   => \E i \in 1..Len(viejos) : PorRenombrar(viejos[i])]_vars

\* a start that renamed the 'email' of one client and gave another an empty 'dni'
C28_Testigo ==
    /\ pc = "menu"
    /\ salida.op = "cargar_datos"
    /\ salida.msg = "cargado"
    /\ salida.cambio_realizado
    /\ \E i, j \in 1..Len(clientes) :
          /\ clientes[i]["dni"] = "e"
          /\ "email" \notin Campos(clientes[i])
          /\ clientes[j]["dni"] = ""
          /\ clientes[j]["telefono"] = ""
    /\ cargar_json(archivos, archivo_clientes) = clientes

\* C29: loading a missing file creates it holding an empty collection and
\* gives an empty collection; loading a file that cannot be decoded gives an
\* empty collection, lets the program start and leaves the file as it was;
\* the first save of that collection afterwards replaces the damaged content
\* by the records in memory, which are those created since the load.
C29_CargaDeArchivos ==
    [][\A f \in Archivos :
          /\ (pc = "apagado" /\ archivos[f].estado = "ausente") =>
                /\ pc' = "menu"
                /\ archivos'[f] = ArchivoJson(<<>>)
                /\ Coleccion(f)' = <<>>
          /\ (pc = "apagado" /\ archivos[f].estado \in {"corrupto", "ilegible"}) =>
                /\ pc' = "menu"
                /\ archivos'[f] = archivos[f]
                /\ Coleccion(f)' = <<>>
          /\ (pc # "apagado" /\ archivos[f].estado \in {"corrupto", "ilegible"}
                  /\ archivos'[f] # archivos[f]) =>
                /\ archivos'[f].estado = "json"
                /\ json_load(archivos'[f].doc) = Coleccion(f)'
                /\ Len(Coleccion(f)') <= pasos']_vars

\* C22: a confirmed registrar_venta saves the ledger before the products, so
\* on disk, also after the process ended at any point of the operation, the
\* units missing from a product's stock are covered by sales of that product
\* in the ledger file, and when the process ends between the two writes the
\* ledger file holds the new sale and the product file is as it was.
C22_VentaAntesQueStock ==
    /\ [](archivos[archivo_productos].estado = "json" =>
             LET enDisco == cargar_json(archivos, archivo_productos)
             IN \A i \in 1..Len(enDisco) :
                   MaxStock - enDisco[i].stock
                       <= Vendidas(cargar_json(archivos, archivo_ventas), enDisco[i].id))
    /\ [][(pc = "venta_confirmar" /\ salida'.op = "registrar_venta" /\ salida'.msg = "caida"
              /\ salida'.punto = "entre_escrituras") =>
             LET libro == cargar_json(archivos', archivo_ventas)
             IN /\ archivos'[archivo_productos] = archivos[archivo_productos]
                /\ Len(libro) = Len(ventas) + 1
                /\ \A k \in 1..Len(ventas) : libro[k] = ventas[k]
                /\ Ultima(libro).producto_id = productos[sel.producto].id
                /\ Ultima(libro).cantidad = sel.cantidad]_vars

\* each of the two processes has recorded one sale and is back at the menu
AmbasRegistraron ==
    /\ pasos = 2
    /\ pc = "menu"
    /\ otra.pc = "menu"
    /\ salida.msg = "venta_registrada"
    /\ otra.salida.msg = "venta_registrada"

\* C30: with two processes that loaded the same files, once each has recorded
\* one sale both sales have the same id and the ledger file holds the ledger
\* of one of the two, one sale longer than what was loaded, so that the other
\* sale is lost; the process that writes the ledger last is the one whose
\* ledger the file holds; and every confirmed sale is reported as registered.
C30_UltimoEnGuardarGana ==
    /\ [](AmbasRegistraron =>
             /\ Ultima(ventas).id = Ultima(otra.ventas).id
             /\ Len(ventas) = Len(otra.ventas)
             /\ \A k \in 1..(Len(ventas) - 1) : ventas[k] = otra.ventas[k]
             /\ archivos[archivo_ventas].estado = "json"
             /\ cargar_json(archivos, archivo_ventas) \in {ventas, otra.ventas})
    /\ [][/\ (otra' = otra /\ pc = "ventas_abierto") =>
                 cargar_json(archivos', archivo_ventas) = ventas'
          /\ (otra' = otra /\ pc = "productos_abierto") =>
                 /\ salida'.msg = "venta_registrada"
                 /\ ventas' = ventas]_vars

\* C30 of the states in which the ledger file is JSON, and what is left of it
\* in the others: the two sales have the same id in every case, and a ledger
\* file that is no JSON loads as the empty ledger
C30_ConLibroLegible ==
    /\ [](AmbasRegistraron =>
             /\ Ultima(ventas).id = Ultima(otra.ventas).id
             /\ Len(ventas) = Len(otra.ventas)
             /\ \A k \in 1..(Len(ventas) - 1) : ventas[k] = otra.ventas[k]
             /\ IF archivos[archivo_ventas].estado = "json"
                THEN cargar_json(archivos, archivo_ventas) \in {ventas, otra.ventas}
                ELSE cargar_json(archivos, archivo_ventas) = <<>>)
    /\ [][/\ (otra' = otra /\ pc = "ventas_abierto"
                 /\ archivos'[archivo_ventas].estado = "json") =>
                 cargar_json(archivos', archivo_ventas) = ventas'
          /\ (otra' = otra /\ pc = "productos_abierto") =>
                 /\ salida'.msg = "venta_registrada"
                 /\ ventas' = ventas]_vars

====
